---- MODULE Spec2Model ----
(***************************************************************************)
(* Ingestion-and-load engine of the NBA data pipeline:                     *)
(*   - the rate-limit aware API caller (_api_call) of the bronze layer,    *)
(*   - the per-date bronze ingestion (ingest_date) with its worker pool,   *)
(*   - the backfill orchestrator (run_backfill / process_with_retry),      *)
(*   - the loaders of the gold layer (upsert, FK filter).                  *)
(* The specifications share the definitions below:                         *)
(*   SpecApi      callers of _api_call interleaved at the semaphore,       *)
(*   SpecApiRetry few callers, failures enough to exhaust the attempts,    *)
(*   SpecIngest   ingest_date with its pool workers interleaved,           *)
(*   SpecCrash    ingest_date in a process that can die while it writes,   *)
(*   SpecBackfill run_backfill over a date range, one step per stage,      *)
(*   SpecAttempt  the same, the discovery call followed inside _api_call,  *)
(*   SpecAttemptFair the same from empty stores, every step taken in time, *)
(*   SpecRerun    run_backfill called again in the same process,           *)
(*   SpecGold     the loaders of gold.py on the rows of the tables,        *)
(*   SpecGoldTeam the loaders of the team game logs,                       *)
(*   SpecPipeline the pipeline of one date, with the content of its files, *)
(*   SpecRelist   the same with a provider that changes its scoreboard,    *)
(*   SpecDates    the pipeline of several dates in any order,              *)
(*   SpecTransform process_date on files that are not as they should be,   *)
(*   SpecPure     a pure function of the silver layer on any input.        *)
(***************************************************************************)
EXTENDS Integers, Sequences, FiniteSets, TLC

VARIABLES
    \* ---- _api_call, one record per calling thread ----
    api_semaphore,   \* permits of _api_semaphore that are free
    callPc,          \* caller -> position inside _api_call
    attempt,         \* caller -> the loop variable `attempt`
    invoked,         \* caller -> number of times fn has been invoked
    result,          \* caller -> 0, or k when the k-th invocation's result was returned
    exc,             \* caller -> the exception in hand ("none" when there is none)
    excOf,           \* caller -> the invocation that raised exc (0 when none)
    wait,            \* caller -> the backoff wait being slept (0 when not in backoff)
    backoffs,        \* caller -> number of backoff sleeps started
    failures,        \* provider failures injected so far
    \* ---- the stores ----
    manifests,       \* date -> NoManifest, or the game-id list of bronze/manifests/<date>.json
    bronze,          \* <<folder, game id>> -> 0 (no file), or the payload version stored
    silver,          \* the partitions <<dataset, season, date>> that exist
    gold,            \* the fact loads <<table, date>> present in the relational store
    \* ---- run_backfill ----
    total,           \* len(dates): the days of the range that are processed
    skip_existing,   \* the argument skip_existing of the current run
    bfPc,            \* position of the main thread inside run_backfill
    idx,             \* index of game_date in dates (enumerate, from 1)
    pattempt,        \* the loop variable `attempt` of process_with_retry
    tries,           \* process_single_date invocations for the current date
    raises,          \* how many of them raised an Exception
    bwait,           \* the backoff wait being slept in process_with_retry
    lastExc,         \* the exception process_single_date raised last ("none": none in hand)
    skipped,
    processed,
    failed,
    failed_dates,
    consecutive_errors,
    outcome,         \* date index -> "none" | "Skipped" | "Succeeded" | "Failed" (this run)
    cooled,          \* date indices after which the cooldown sleep was started (this run)
    delayed,         \* date indices after which the inter-date sleep was taken (this run)
    called,          \* date indices for which the provider was invoked (this run)
    \* ---- ingest_date, one call after the other ----
    ingPc,           \* position of the main thread inside ingest_date
    ingDate,         \* index of game_date in dates (0 before the first call)
    run,             \* calls of ingest_date so far; the provider's payload version
    gpc,             \* game id -> position of its _download_game in the pool
    gstep,           \* game id -> index in Folders of the download it is in
    started,         \* game ids whose _download_game has begun (this call)
    fetched,         \* artifacts the provider was called for (this call)
    collected,       \* game ids whose future the as_completed loop has handled
    errors,          \* the list `errors` of ingest_date
    \* ---- the process that calls run_backfill ----
    bfRuns,          \* calls of run_backfill so far
    load_dims,       \* the argument load_dims of the current run
    dim_loads,       \* the dimension loaders the current run has completed, in order
    all_validations, \* _all_validations: the runs whose results the list holds
    reported,        \* what print_validation_report last went through
    \* ---- the relational store, row by row ----
    db,              \* table name -> the rows <<primary key, attribute values>>
    loadOp,          \* the last loader call: its table, the keys its FK filter
                     \* kept and dropped, the skipped count it printed, the keys
                     \* it inserted after an earlier drop, the keys it updated
    recent,          \* table name -> key -> the values of the last upsert of the key
    wasSkipped,      \* <<table, key>> of the fact rows an FK filter has dropped
                     \* and no later load has inserted
    \* ---- the pipeline of one date, with the content of its files ----
    pipePc,          \* the stage the pipeline has reached
    pipeDate,        \* index of the date it runs for
    pipeRuns,        \* runs of the pipeline that completed
    partRows,        \* silver partition (dataset, date) -> the rows of its data.parquet
    snapshot,        \* the stores as the first completed run left them
    shape,           \* bronze artifact -> the shape of the payload in the file
    procLog,         \* what the last process_date logged, recorded and raised
    relisted,        \* the provider lists no game for the date any more
    completed,       \* indices of the dates a run of the pipeline got through
    \* a pure function applied to an input
    fnArg,           \* the argument: a date or a clock value
    fnRet            \* what the function returned for it, once called

apiVars == <<api_semaphore, callPc, attempt, invoked, result, exc, excOf, wait,
             backoffs, failures>>

fsVars == <<manifests, bronze, silver, gold>>

\* what the outcome of an attempt decides
retryVars == <<raises, bwait, lastExc, processed, failed, failed_dates,
               consecutive_errors, outcome, cooled>>

bfVars == <<total, skip_existing, bfPc, idx, pattempt, tries, skipped, delayed, called,
            retryVars>>

ingVars == <<ingPc, ingDate, run, gpc, gstep, started, fetched, collected, errors>>

sessVars == <<bfRuns, load_dims, dim_loads, all_validations, reported>>

goldVars == <<db, loadOp, recent, wasSkipped>>

pipeVars == <<pipePc, pipeDate, pipeRuns, partRows, snapshot, shape, procLog, relisted,
             completed>>

fnVars == <<fnArg, fnRet>>

dbVars == <<goldVars, pipeVars, fnVars>>

vars == <<apiVars, fsVars, bfVars, ingVars, dbVars, sessVars>>

----------------------------------------------------------------------------
(* Bounds of the exploration *)

\* callers of _api_call beyond the number of permits
ExtraCallers == 1
\* provider failures injected in one behaviour of SpecApi (many callers)
MaxFailures == 2
\* callers and provider failures in one behaviour of SpecApiRetry (few callers,
\* enough failures for one of them to exhaust its attempts)
RetryCallers == 2
MaxRetryFailures == 6
\* days in the range given to run_backfill
NumDates == 4
\* days in the range when the discovery call is followed step by step
AttemptDates == 3

\* dates ingest_date is called for, and calls of ingest_date
IngestDates == 4
MaxRuns == 2

\* calls of run_backfill in one process
MaxBfRuns == 2

\* rows in a silver file read by a loader
MaxFrame == 2

\* the longest body of a clock string
MaxClockBody == 5

\* the dates the pipeline is run for in any order
MaxPipeDates == 2

\* the files of a date that are not as they should be
MaxOdd == 2

----------------------------------------------------------------------------
(* bronze/ingestion.py: rate-limit aware API caller *)

_MAX_RETRIES == 5
_BASE_BACKOFF == 10
_MAX_CONCURRENT == 3
\* upper end of random.uniform(0, 5) added to a backoff wait
_BACKOFF_JITTER == 5
\* the factor of the rate-limit floor, 30 * attempt
_RATE_LIMIT_FLOOR == 30

Callers == 1 .. (_MAX_CONCURRENT + ExtraCallers)

\* KeyboardInterrupt is raised by the signal handler, which Python runs in the
\* main thread only.
MainThread == 1

Max(a, b) == IF a >= b THEN a ELSE b

RECURSIVE Pow2(_)
Pow2(n) == IF n <= 0 THEN 1 ELSE 2 * Pow2(n - 1)

\* The error texts the provider boundary produces, by the marker they contain.
RateLimitMarkers ==
    {"timed out", "read timeout", "connection aborted", "remotedisconnected",
     "429", "too many requests"}

ProviderErrors == {"timed out", "internal server error"}

\* is_rate_limit = any(k in err_str for k in [...])
is_rate_limit(e) == e \in RateLimitMarkers

\* the draws of random.uniform(0, 5) that are explored: both ends
Jitters == {0, _BACKOFF_JITTER}

\* a mutant of ApiWait: the rate-limit floor is left out
ApiWaitNoFloor(a, e, jitter) == _BASE_BACKOFF * Pow2(a - 1) + jitter

\* wait = _BASE_BACKOFF * 2 ** (attempt - 1) + jitter ; max(wait, 30 * attempt)
ApiWait(a, e, jitter) ==
    LET w == _BASE_BACKOFF * Pow2(a - 1) + jitter
    IN  IF is_rate_limit(e) THEN Max(w, _RATE_LIMIT_FLOOR * a) ELSE w

\* `except KeyboardInterrupt: raise` precedes `except Exception as e`
ApiRetryHandles(e) == e # "KeyboardInterrupt"

\* a mutant of ApiGivesUp: the last attempt is not recognised, so the handler
\* sleeps once more and the loop runs out
ApiGivesUpNever(a) == a > _MAX_RETRIES

\* `if attempt == _MAX_RETRIES: ... raise`
ApiGivesUp(a) == a = _MAX_RETRIES

ApiInit ==
    /\ api_semaphore = _MAX_CONCURRENT
    /\ callPc = [t \in Callers |-> "idle"]
    /\ attempt = [t \in Callers |-> 0]
    /\ invoked = [t \in Callers |-> 0]
    /\ result = [t \in Callers |-> 0]
    /\ exc = [t \in Callers |-> "none"]
    /\ excOf = [t \in Callers |-> 0]
    /\ wait = [t \in Callers |-> 0]
    /\ backoffs = [t \in Callers |-> 0]
    /\ failures = 0

\* a thread calls _api_call: `for attempt in range(1, _MAX_RETRIES + 1)` starts
ApiCallStart(t) ==
    /\ callPc[t] = "idle"
    /\ callPc' = [callPc EXCEPT ![t] = "acquire"]
    /\ attempt' = [attempt EXCEPT ![t] = 1]
    /\ UNCHANGED <<api_semaphore, invoked, result, exc, excOf, wait, backoffs, failures>>

\* a mutant of PermitFree: the semaphore does not block
PermitFreeUnbounded == TRUE

\* threading.Semaphore.acquire() blocks while no permit is free
PermitFree == api_semaphore > 0

\* `with _api_semaphore:` is entered and fn(*args, **kwargs) is invoked
ApiAcquire(t) ==
    /\ callPc[t] = "acquire"
    /\ PermitFree
    /\ api_semaphore' = api_semaphore - 1
    /\ callPc' = [callPc EXCEPT ![t] = "fn"]
    /\ invoked' = [invoked EXCEPT ![t] = @ + 1]
    /\ UNCHANGED <<attempt, result, exc, excOf, wait, backoffs, failures>>

\* a mutant of ApiFnReturns: the sleep is inside the with block, so the
\* permit is still held when the delay starts
ApiFnReturnsHoldingPermit(t) ==
    /\ callPc[t] = "fn"
    /\ UNCHANGED api_semaphore
    /\ callPc' = [callPc EXCEPT ![t] = "delay"]
    /\ result' = [result EXCEPT ![t] = invoked[t]]
    /\ UNCHANGED <<attempt, invoked, exc, excOf, wait, backoffs, failures>>

\* fn returns: the with block is left (permit released), then
\* time.sleep(_CALL_DELAY + jitter) starts
ApiFnReturns(t) ==
    /\ callPc[t] = "fn"
    /\ api_semaphore' = api_semaphore + 1
    /\ callPc' = [callPc EXCEPT ![t] = "delay"]
    /\ result' = [result EXCEPT ![t] = invoked[t]]
    /\ UNCHANGED <<attempt, invoked, exc, excOf, wait, backoffs, failures>>

\* what the except clauses do with exception e raised in attempt a
ApiHandle(t, e, jitter) ==
    IF ApiRetryHandles(e) /\ ~ApiGivesUp(attempt[t])
    THEN /\ callPc' = [callPc EXCEPT ![t] = "backoff"]
         /\ wait' = [wait EXCEPT ![t] = ApiWait(attempt[t], e, jitter)]
         /\ backoffs' = [backoffs EXCEPT ![t] = @ + 1]
    ELSE /\ callPc' = [callPc EXCEPT ![t] = "raised"]
         /\ wait' = [wait EXCEPT ![t] = 0]
         /\ UNCHANGED backoffs

\* a mutant of ApiFnRaises: the try is inside the with block, so the permit
\* is held while the handler sleeps and when it re-raises
ApiFnRaisesHoldingPermit(t, budget) ==
    /\ callPc[t] = "fn"
    /\ failures < budget
    /\ \E e \in ProviderErrors, jitter \in Jitters :
          /\ exc' = [exc EXCEPT ![t] = e]
          /\ excOf' = [excOf EXCEPT ![t] = invoked[t]]
          /\ ApiHandle(t, e, jitter)
    /\ api_semaphore' = IF callPc'[t] = "raised" THEN api_semaphore + 1 ELSE api_semaphore
    /\ failures' = failures + 1
    /\ UNCHANGED <<attempt, invoked, result>>

\* fn raises an Exception: the with block is left (permit released) and the
\* handler either re-raises (last attempt) or starts the backoff sleep
ApiFnRaises(t, budget) ==
    /\ callPc[t] = "fn"
    /\ failures < budget
    /\ \E e \in ProviderErrors, jitter \in Jitters :
          /\ exc' = [exc EXCEPT ![t] = e]
          /\ excOf' = [excOf EXCEPT ![t] = invoked[t]]
          /\ ApiHandle(t, e, jitter)
    /\ api_semaphore' = api_semaphore + 1
    /\ failures' = failures + 1
    /\ UNCHANGED <<attempt, invoked, result>>

\* time.sleep(wait) ends: next iteration of the for loop; a loop that runs
\* out reaches `raise RuntimeError(f"{label}: exhausted all retries")`
ApiBackoffEnds(t) ==
    /\ callPc[t] = "backoff"
    /\ wait' = [wait EXCEPT ![t] = 0]
    /\ excOf' = [excOf EXCEPT ![t] = 0]
    /\ IF attempt[t] < _MAX_RETRIES
       THEN /\ callPc' = [callPc EXCEPT ![t] = "acquire"]
            /\ attempt' = [attempt EXCEPT ![t] = @ + 1]
            \* `e` is unbound when the except block is left
            /\ exc' = [exc EXCEPT ![t] = "none"]
       ELSE /\ callPc' = [callPc EXCEPT ![t] = "raised"]
            /\ exc' = [exc EXCEPT ![t] = "RuntimeError"]
            /\ UNCHANGED attempt
    /\ UNCHANGED <<api_semaphore, invoked, result, backoffs, failures>>

\* the post-success sleep ends: `return result`
ApiReturns(t) ==
    /\ callPc[t] = "delay"
    /\ callPc' = [callPc EXCEPT ![t] = "returned"]
    /\ UNCHANGED <<api_semaphore, attempt, invoked, result, exc, excOf, wait,
                   backoffs, failures>>

\* KeyboardInterrupt reaches the main thread while it is inside _api_call:
\* waiting for a permit, inside fn (the with block releases the permit), in
\* the post-success sleep, or in the backoff sleep of the handler
ApiInterrupt(t) ==
    /\ t = MainThread
    /\ callPc[t] \in {"acquire", "fn", "delay", "backoff"}
    /\ api_semaphore' = IF callPc[t] = "fn" THEN api_semaphore + 1 ELSE api_semaphore
    /\ exc' = [exc EXCEPT ![t] = "KeyboardInterrupt"]
    /\ excOf' = [excOf EXCEPT ![t] = 0]
    /\ IF callPc[t] = "backoff"
       THEN \* raised inside the except block: propagates, no clause applies
            /\ callPc' = [callPc EXCEPT ![t] = "raised"]
            /\ wait' = [wait EXCEPT ![t] = 0]
            /\ UNCHANGED backoffs
       ELSE ApiHandle(t, "KeyboardInterrupt", 0)
    /\ UNCHANGED <<attempt, invoked, result, failures>>

ApiStep(t, budget) ==
    \/ ApiCallStart(t)
    \/ ApiAcquire(t)
    \/ ApiFnReturns(t)
    \/ ApiFnRaises(t, budget)
    \/ ApiBackoffEnds(t)
    \/ ApiReturns(t)
    \/ ApiInterrupt(t)

----------------------------------------------------------------------------
(* The provider boundary and the stores *)

\* first day of the range: the range crosses the season boundary of October
StartDate == <<2023, 9, 29>>

IsLeap(y) == (y % 4 = 0 /\ y % 100 # 0) \/ y % 400 = 0

DaysIn(y, m) ==
    IF m = 2 THEN (IF IsLeap(y) THEN 29 ELSE 28)
    ELSE IF m \in {4, 6, 9, 11} THEN 30 ELSE 31

\* current += timedelta(days=1)
NextDay(d) ==
    IF d[3] < DaysIn(d[1], d[2]) THEN <<d[1], d[2], d[3] + 1>>
    ELSE IF d[2] < 12 THEN <<d[1], d[2] + 1, 1>>
    ELSE <<d[1] + 1, 1, 1>>

RECURSIVE date_range(_, _)
\* the n days from start on, in order
date_range(start, n) ==
    IF n = 0 THEN <<>> ELSE <<start>> \o date_range(NextDay(start), n - 1)

dates == date_range(StartDate, NumDates)

DateSet == {dates[k] : k \in 1 .. NumDates}

\* a mutant of get_nba_season: the season starts in November
get_nba_season_november(d) == IF d[2] > 10 THEN d[1] ELSE d[1] - 1

\* return dt.year if dt.month >= 10 else dt.year - 1
get_nba_season(d) == IF d[2] >= 10 THEN d[1] ELSE d[1] - 1

\* What ScoreboardV2 answers for the k-th day of the range: one game, no
\* game, two games, one game whose GameHeader row comes twice, and so on.
\* Game ids are 10 * k + n.
ProviderGames(k) ==
    CASE k % 4 = 1 -> <<10 * k + 1>>
      [] k % 4 = 2 -> <<>>
      [] k % 4 = 3 -> <<10 * k + 1, 10 * k + 2>>
      [] OTHER     -> <<10 * k + 1, 10 * k + 1>>

\* The box score of the games of every fourth day lists no player, so that
\* convert_boxscore returns an empty frame for it.
NoRows(folder, gid) == folder = "boxscores" /\ (gid \div 10) % 4 = 0

Range(seq) == {seq[n] : n \in 1 .. Len(seq)}

AllGames == UNION {Range(ProviderGames(k)) : k \in 1 .. NumDates}

\* download_boxscore, download_pbp, download_shotchart, in the order of _download_game
Folders == <<"boxscores", "pbp", "shot_chart">>

Artifacts == Range(Folders) \X AllGames

\* load_date: player-stat facts, play-by-play facts, shot facts, in this order
FactTables == <<"fact_player_stats", "fact_play_by_play", "fact_shots">>

\* FOREIGN KEY ... REFERENCES of SCHEMA_SQL: the dimension tables each fact
\* table refers to
ForeignKeys ==
    [fact_player_stats |-> {"games", "players", "teams"},
     fact_team_stats   |-> {"games", "teams"},
     fact_play_by_play |-> {"games"},
     fact_shots        |-> {"games", "players"}]

\* the loader of each dimension table
DimLoaderOf ==
    [teams |-> "load_dim_teams", players |-> "load_dim_players", games |-> "load_dim_games"]

\* bronze/manifests/<date>.json does not exist (no game has the id 0)
NoManifest == <<0>>

StoreInit ==
    /\ manifests = [d \in DateSet |-> NoManifest]
    /\ bronze = [a \in Artifacts |-> 0]
    /\ silver = {}
    /\ gold = {}

\* a mutant of _already_exists: no file is ever found
_already_exists_never(a) == FALSE

\* _already_exists(path)
_already_exists(a) == bronze[a] # 0

RECURSIVE DownloadGame(_, _, _, _)
\* _download_game(gid) from folder n on, when the provider calls for the
\* artifacts in F raise out of _api_call: an existing file is left alone, a
\* raising call ends the game, a returning call is saved (payload version 1)
DownloadGame(b, gid, n, F) ==
    IF n > Len(Folders) THEN [bronze |-> b, ok |-> TRUE, calls |-> FALSE]
    ELSE LET a == <<Folders[n], gid>> IN
         IF b[a] # 0 THEN DownloadGame(b, gid, n + 1, F)
         ELSE IF a \in F THEN [bronze |-> b, ok |-> FALSE, calls |-> TRUE]
         ELSE [DownloadGame([b EXCEPT ![a] = 1], gid, n + 1, F) EXCEPT !.calls = TRUE]

RECURSIVE DownloadAll(_, _, _, _)
\* every submitted game runs to its end; errors collects the ids that raised
DownloadAll(b, games, n, F) ==
    IF n > Len(games) THEN [bronze |-> b, errors |-> <<>>, calls |-> FALSE]
    ELSE LET g == DownloadGame(b, games[n], 1, F)
             r == DownloadAll(g.bronze, games, n + 1, F)
         IN  [bronze |-> r.bronze,
              errors |-> IF g.ok THEN r.errors ELSE <<games[n]>> \o r.errors,
              calls |-> g.calls \/ r.calls]

\* The provider failures explored from run_backfill: any set of games of the
\* date, each failing at its first provider call (the interleavings of the
\* pool and failures at the later calls are explored in SpecIngest).
DownloadFailures(k) == SUBSET ({Folders[1]} \X Range(ProviderGames(k)))

\* The points at which process_date and load_date are made to fail: after
\* this many datasets (tables) have been written.
TransformFailPoints == {0, 1}
LoadFailPoints == {0, 1}

\* a converter returns a non-empty frame for some game listed in manifest m
\* of date d whose file exists in b
HasFrames(n, d, m, b) ==
    \E g \in Range(m[d]) : b[<<Folders[n], g>>] # 0 /\ ~NoRows(Folders[n], g)

\* the partitions process_date writes when its first n datasets complete
PartitionsIn(n, d, m, b) ==
    {<<Folders[k], get_nba_season(d), d>> : k \in {k \in 1 .. n : HasFrames(k, d, m, b)}}

PartitionsWritten(n, d) == PartitionsIn(n, d, manifests, bronze)

\* the fact loads load_date commits when its first n loaders complete: a
\* loader without a partition for the date loads nothing
FactsIn(n, d, sv) ==
    {<<FactTables[k], d>> :
        k \in {k \in 1 .. n : <<Folders[k], get_nba_season(d), d>> \in sv}}

FactsLoaded(n, d) == FactsIn(n, d, silver)

----------------------------------------------------------------------------
(* scripts/backfill.py *)

MAX_RETRIES == 5
BASE_BACKOFF == 30
COOLDOWN_AFTER_ERRORS == 120
\* `if consecutive_errors >= 3`
COOLDOWN_THRESHOLD == 3

\* dates in the range of a process that calls run_backfill more than once:
\* the shortest range on which the cooldown can happen
RerunDates == COOLDOWN_THRESHOLD

\* a mutant of is_already_done: the manifest alone marks a date as done
is_already_done_manifest_only(d) == manifests[d] # NoManifest

\* is_already_done(game_date)
is_already_done(d) ==
    IF manifests[d] = NoManifest THEN FALSE
    ELSE IF manifests[d] = <<>> THEN TRUE
    ELSE <<"boxscores", get_nba_season(d), d>> \in silver

\* a mutant of BfRetryHandles: a bare `except:` that also takes KeyboardInterrupt
BfRetryHandlesAll(e) == TRUE

\* `except KeyboardInterrupt: raise` precedes `except Exception as e`
BfRetryHandles(e) == e # "KeyboardInterrupt"

\* a mutant of BfGivesUp: one attempt too few
BfGivesUpEarly(a) == a = MAX_RETRIES - 1

\* a mutant of BfGivesUp: the date is given up one attempt later
BfGivesUpLate(a) == a = MAX_RETRIES + 1

\* `if attempt == MAX_RETRIES: ... return False`
BfGivesUp(a) == a = MAX_RETRIES

\* a mutant of BfWait: the wait grows linearly with the attempt
BfWaitLinear(a, jitter) == BASE_BACKOFF * a + jitter

\* wait = BASE_BACKOFF * (2 ** (attempt - 1)) + random.uniform(0, 5)
BfWait(a, jitter) == BASE_BACKOFF * Pow2(a - 1) + jitter

\* a mutant of NeedsCooldown: the pause waits for a fourth failure
NeedsCooldownLate(n) == n > COOLDOWN_THRESHOLD

\* `if consecutive_errors >= 3`
NeedsCooldown(n) == n >= COOLDOWN_THRESHOLD

BfInit(n) ==
    /\ total = n
    /\ skip_existing = TRUE
    /\ bfPc = "idle"
    /\ idx = 0
    /\ pattempt = 0
    /\ tries = 0
    /\ raises = 0
    /\ bwait = 0
    /\ lastExc = "none"
    /\ skipped = 0
    /\ processed = 0
    /\ failed = 0
    /\ failed_dates = <<>>
    /\ consecutive_errors = 0
    /\ outcome = [k \in 1 .. NumDates |-> "none"]
    /\ cooled = {}
    /\ delayed = {}
    /\ called = {}
    /\ bfRuns = 0
    /\ load_dims = FALSE
    /\ dim_loads = <<>>
    /\ all_validations = {}
    /\ reported = {}

\* the frame of the main thread's _api_call: fresh for every call, gone when
\* the call is left
ApiFrameReset ==
    /\ api_semaphore' = _MAX_CONCURRENT
    /\ callPc' = [callPc EXCEPT ![MainThread] = "idle"]
    /\ attempt' = [attempt EXCEPT ![MainThread] = 0]
    /\ invoked' = [invoked EXCEPT ![MainThread] = 0]
    /\ result' = [result EXCEPT ![MainThread] = 0]
    /\ exc' = [exc EXCEPT ![MainThread] = "none"]
    /\ excOf' = [excOf EXCEPT ![MainThread] = 0]
    /\ wait' = [wait EXCEPT ![MainThread] = 0]
    /\ backoffs' = [backoffs EXCEPT ![MainThread] = 0]
    /\ failures' = 0

\* load_dimensions(): the steps in call order
load_dimensions ==
    <<"download_all_teams", "download_all_players", "process_players", "process_teams",
      "load_dim_players", "load_dim_teams">>

\* the loaders of the gold layer that fill a dimension table
DimLoaders == {"load_dim_teams", "load_dim_players", "load_dim_games"}

\* the dimension loaders among the first n steps of load_dimensions, in order
DimLoadsAfter(n) ==
    SelectSeq(SubSeq(load_dimensions, 1, n), LAMBDA f : f \in DimLoaders)

\* the steps of load_dimensions that register a validation (_validate("players"),
\* _validate("teams"))
DimValidators == {"process_players", "process_teams"}

\* where load_dimensions can be left early: the first download fails, or the
\* database is unreachable at the first loader
DimFailPoints == {0, 4}

\* run_backfill(start, end, skip_existing, load_dims): the counters are set
\* up (init_schema creates tables only: `create if not exists`)
BfBegin(ld) ==
    /\ bfPc = "idle"
    /\ bfRuns' = bfRuns + 1
    /\ load_dims' = ld
    /\ dim_loads' = <<>>
    /\ skip_existing' \in BOOLEAN
    /\ bfPc' = IF ld THEN "dims" ELSE "check"
    /\ idx' = 1
    /\ skipped' = 0
    /\ processed' = 0
    /\ failed' = 0
    /\ failed_dates' = <<>>
    /\ consecutive_errors' = 0
    /\ UNCHANGED <<apiVars, fsVars, total, ingVars, dbVars, all_validations, reported, pattempt,
                   tries, raises, bwait, lastExc, outcome, cooled, delayed, called>>

\* run_backfill with load_dims left at its default
BfStart == BfBegin(FALSE)

\* run_backfill with --load-dims
BfStartDims == BfBegin(TRUE)

\* `if load_dims: load_dimensions()`: nothing catches what it raises, so an
\* exception or an interrupt after n of its steps leaves run_backfill
BfLoadDimensions ==
    /\ bfPc = "dims"
    /\ \E n \in DimFailPoints \cup {Len(load_dimensions)},
          e \in {"none", "RuntimeError", "KeyboardInterrupt"} :
          /\ (e = "none") = (n = Len(load_dimensions))
          /\ dim_loads' = DimLoadsAfter(n)
          /\ all_validations' =
                IF \E k \in 1 .. n : load_dimensions[k] \in DimValidators
                THEN all_validations \cup {bfRuns}
                ELSE all_validations
          /\ bfPc' = CASE e = "none" -> "check"
                       [] e = "KeyboardInterrupt" -> "interrupted"
                       [] OTHER -> "raised"
          /\ lastExc' = e
    /\ UNCHANGED <<apiVars, fsVars, total, ingVars, dbVars, bfRuns, load_dims, reported, skip_existing,
                   idx, pattempt, tries, skipped, delayed, called, raises, bwait, processed,
                   failed, failed_dates, consecutive_errors, outcome, cooled>>

\* What an earlier run of the pipeline left in the stores for the date the
\* loop has reached (the loop neither reads nor writes the files of a date
\* before): the date ingested, ingested and transformed, or loaded as well.
BfPrior ==
    /\ bfPc = "check"
    /\ idx <= total
    /\ manifests[dates[idx]] = NoManifest
    /\ \E stage \in 1 .. 3 :
          LET d == dates[idx]
              b == DownloadAll(bronze, ProviderGames(idx), 1, {}).bronze
              m == [manifests EXCEPT ![d] = ProviderGames(idx)]
              sv == silver \cup PartitionsIn(Len(Folders), d, m, b)
          IN  /\ bronze' = b
              /\ manifests' = m
              /\ silver' = IF stage >= 2 THEN sv ELSE silver
              /\ gold' = IF stage >= 3 THEN gold \cup FactsIn(Len(FactTables), d, sv)
                         ELSE gold
    /\ UNCHANGED <<apiVars, bfVars, ingVars, dbVars, sessVars>>

\* a mutant of BfSkip: the skip branch falls through to the inter-date sleep
\* instead of `continue`
BfSkipDelayed ==
    /\ bfPc = "check"
    /\ idx <= total
    /\ skip_existing /\ is_already_done(dates[idx])
    /\ skipped' = skipped + 1
    /\ outcome' = [outcome EXCEPT ![idx] = "Skipped"]
    /\ bfPc' = "delay"
    /\ UNCHANGED <<apiVars, fsVars, total, ingVars, dbVars, sessVars, skip_existing, idx, pattempt, tries, delayed,
                   called, raises, bwait, lastExc, processed, failed, failed_dates,
                   consecutive_errors, cooled>>

\* `if skip_existing and is_already_done(game_date): skipped += 1; continue`
BfSkip ==
    /\ bfPc = "check"
    /\ idx <= total
    /\ skip_existing /\ is_already_done(dates[idx])
    /\ skipped' = skipped + 1
    /\ outcome' = [outcome EXCEPT ![idx] = "Skipped"]
    /\ idx' = idx + 1
    /\ UNCHANGED <<apiVars, fsVars, total, ingVars, dbVars, sessVars, skip_existing, bfPc, pattempt, tries, delayed,
                   called, raises, bwait, lastExc, processed, failed, failed_dates,
                   consecutive_errors, cooled>>

\* process_with_retry(game_date) is entered: attempt 1 calls
\* process_single_date, whose first statement is ingest_date's discovery
BfProcess ==
    /\ bfPc = "check"
    /\ idx <= total
    /\ ~(skip_existing /\ is_already_done(dates[idx]))
    /\ bfPc' = "discover"
    /\ pattempt' = 1
    /\ tries' = 1
    /\ raises' = 0
    /\ lastExc' = "none"
    /\ ApiFrameReset
    /\ UNCHANGED <<fsVars, total, ingVars, dbVars, sessVars, skip_existing, idx, skipped, delayed, called, bwait,
                   processed, failed, failed_dates, consecutive_errors, outcome, cooled>>

\* the main thread is inside the _api_call of get_game_ids_for_date
BfDiscoverStep ==
    /\ bfPc = "discover"
    /\ ApiStep(MainThread, _MAX_RETRIES)
    /\ called' = IF invoked'[MainThread] # invoked[MainThread]
                 THEN called \cup {idx} ELSE called
    /\ UNCHANGED <<fsVars, total, ingVars, dbVars, sessVars, skip_existing, bfPc, idx, pattempt, tries, skipped,
                   delayed, retryVars>>

\* a mutant of BfSucceeded: `processed += 1` is left out
BfSucceededUncounted ==
    /\ bfPc' = "delay"
    /\ UNCHANGED processed
    /\ consecutive_errors' = 0
    /\ outcome' = [outcome EXCEPT ![idx] = "Succeeded"]
    /\ UNCHANGED <<raises, bwait, lastExc, failed, failed_dates, cooled>>

\* process_with_retry returns True: `processed += 1; consecutive_errors = 0`,
\* then the inter-date sleep starts
BfSucceeded ==
    /\ bfPc' = "delay"
    /\ processed' = processed + 1
    /\ consecutive_errors' = 0
    /\ outcome' = [outcome EXCEPT ![idx] = "Succeeded"]
    /\ UNCHANGED <<raises, bwait, lastExc, failed, failed_dates, cooled>>

\* process_single_date raised e inside the try of process_with_retry
BfRaise(e) ==
    /\ lastExc' = e
    /\ IF ~BfRetryHandles(e)
       THEN \* the exception leaves process_with_retry and run_backfill
            /\ bfPc' = "interrupted"
            /\ UNCHANGED <<raises, bwait, processed, failed, failed_dates,
                           consecutive_errors, outcome, cooled>>
       ELSE IF BfGivesUp(pattempt)
       THEN \* return False: `failed += 1; failed_dates.append(game_date);
            \* consecutive_errors += 1`, then the cooldown sleep when it is due
            /\ raises' = raises + 1
            /\ failed' = failed + 1
            /\ failed_dates' = Append(failed_dates, dates[idx])
            /\ consecutive_errors' = consecutive_errors + 1
            /\ outcome' = [outcome EXCEPT ![idx] = "Failed"]
            /\ IF NeedsCooldown(consecutive_errors + 1)
               THEN bfPc' = "cooldown" /\ cooled' = cooled \cup {idx}
               ELSE bfPc' = "delay" /\ UNCHANGED cooled
            /\ UNCHANGED <<bwait, processed>>
       ELSE \* time.sleep(wait)
            /\ raises' = raises + 1
            /\ bfPc' = "backoff"
            /\ \E jitter \in Jitters : bwait' = BfWait(pattempt, jitter)
            /\ UNCHANGED <<processed, failed, failed_dates, consecutive_errors,
                           outcome, cooled>>

\* a mutant of DiscoveryReturned: ingest_date returns for an empty list
\* without writing the manifest
DiscoveryReturnedNoManifest ==
    IF ProviderGames(idx) = <<>>
    THEN /\ UNCHANGED manifests
         /\ bfPc' = "transform"
    ELSE /\ bfPc' = "download"
         /\ UNCHANGED manifests

\* get_game_ids_for_date returned the list; an empty list is written as an
\* empty manifest and ingest_date returns
DiscoveryReturned ==
    IF ProviderGames(idx) = <<>>
    THEN /\ manifests' = [manifests EXCEPT ![dates[idx]] = <<>>]
         /\ bfPc' = "transform"
    ELSE /\ bfPc' = "download"
         /\ UNCHANGED manifests

BfDiscovered ==
    /\ bfPc = "discover"
    /\ callPc[MainThread] = "returned"
    /\ DiscoveryReturned
    /\ ApiFrameReset
    /\ UNCHANGED <<bronze, silver, gold, total, ingVars, dbVars, sessVars, skip_existing, idx, pattempt, tries,
                   skipped, delayed, called, retryVars>>

\* the discovery call raised out of _api_call and ingest_date
BfDiscoverRaised ==
    /\ bfPc = "discover"
    /\ callPc[MainThread] = "raised"
    /\ BfRaise(exc[MainThread])
    /\ ApiFrameReset
    /\ UNCHANGED <<fsVars, total, ingVars, dbVars, sessVars, skip_existing, idx, pattempt, tries, skipped, delayed,
                   called>>

\* The discovery call in one step, by the outcome of its _api_call: the list
\* is returned, the error of the last attempt is raised, or the main thread
\* is interrupted inside it.
BfDiscoverCall ==
    /\ bfPc = "discover"
    /\ called' = called \cup {idx}
    /\ \E r \in {"returned", "KeyboardInterrupt"} \cup ProviderErrors :
          IF r = "returned"
          THEN DiscoveryReturned /\ UNCHANGED retryVars
          ELSE BfRaise(r) /\ UNCHANGED manifests
    /\ UNCHANGED <<apiVars, bronze, silver, gold, total, ingVars, dbVars, sessVars, skip_existing, idx, pattempt,
                   tries, skipped, delayed>>

\* the pool of ingest_date seen from run_backfill: all games are downloaded,
\* then either RuntimeError(errors) is raised or the manifest is written.  A
\* KeyboardInterrupt in the waiting main thread leaves the with block only
\* after the pool has shut down (wait=True), and no manifest is written.
BfDownload ==
    /\ bfPc = "download"
    /\ \E F \in DownloadFailures(idx), e \in {"none", "KeyboardInterrupt"} :
          LET r == DownloadAll(bronze, ProviderGames(idx), 1, F) IN
          /\ bronze' = r.bronze
          /\ called' = IF r.calls THEN called \cup {idx} ELSE called
          /\ IF e # "none"
             THEN BfRaise(e) /\ UNCHANGED manifests
             ELSE IF r.errors # <<>>
             THEN BfRaise("RuntimeError") /\ UNCHANGED manifests
             ELSE /\ manifests' = [manifests EXCEPT ![dates[idx]] = ProviderGames(idx)]
                  /\ bfPc' = "transform"
                  /\ UNCHANGED retryVars
    /\ UNCHANGED <<apiVars, silver, gold, total, ingVars, dbVars, sessVars, skip_existing, idx, pattempt, tries,
                   skipped, delayed>>

\* the converters register a validation (_validate) once the frame of a file
\* is built, so the first n datasets of date d registered one when one of
\* their files converted to rows
Validated(n, d) == \E k \in 1 .. n : HasFrames(k, d, manifests, bronze)

\* process_date(game_date): returns at once for an empty manifest; otherwise
\* the datasets are converted and saved in order, and an exception (a file
\* that does not parse, a failing write) or an interrupt ends it after n of them
BfTransform ==
    /\ bfPc = "transform"
    /\ LET d == dates[idx] IN
       IF manifests[d] = <<>>
       THEN /\ bfPc' = "load"
            /\ UNCHANGED <<silver, all_validations, retryVars>>
       ELSE \E n \in TransformFailPoints \cup {Len(Folders)},
               e \in {"none", "OSError", "KeyboardInterrupt"} :
               /\ (e = "none") = (n = Len(Folders))
               /\ silver' = silver \cup PartitionsWritten(n, d)
               /\ all_validations' = IF Validated(n, d)
                                     THEN all_validations \cup {bfRuns}
                                     ELSE all_validations
               /\ IF e = "none"
                  THEN bfPc' = "load" /\ UNCHANGED retryVars
                  ELSE BfRaise(e)
    /\ UNCHANGED <<apiVars, manifests, bronze, gold, total, ingVars, dbVars, bfRuns, load_dims, dim_loads,
                   reported, skip_existing, idx, pattempt, tries, skipped, delayed, called>>

\* load_date(game_date): player stats, play-by-play, shots; an exception (the
\* database is unreachable) or an interrupt ends it after n of them
BfLoad ==
    /\ bfPc = "load"
    /\ \E n \in LoadFailPoints \cup {Len(FactTables)},
          e \in {"none", "OperationalError", "KeyboardInterrupt"} :
          /\ (e = "none") = (n = Len(FactTables))
          /\ gold' = gold \cup FactsLoaded(n, dates[idx])
          /\ IF e = "none" THEN BfSucceeded ELSE BfRaise(e)
    /\ UNCHANGED <<apiVars, manifests, bronze, silver, total, ingVars, dbVars, sessVars, skip_existing, idx,
                   pattempt, tries, skipped, delayed, called>>

\* time.sleep(wait) of process_with_retry ends: the next attempt starts
BfBackoffEnds ==
    /\ bfPc = "backoff"
    /\ bfPc' = "discover"
    /\ pattempt' = pattempt + 1
    /\ tries' = tries + 1
    /\ bwait' = 0
    /\ lastExc' = "none"
    /\ ApiFrameReset
    /\ UNCHANGED <<fsVars, total, ingVars, dbVars, sessVars, skip_existing, idx, skipped, delayed, called, raises,
                   processed, failed, failed_dates, consecutive_errors, outcome, cooled>>

\* time.sleep(COOLDOWN_AFTER_ERRORS) ends
BfCooldownEnds ==
    /\ bfPc = "cooldown"
    /\ bfPc' = "delay"
    /\ UNCHANGED <<apiVars, fsVars, total, ingVars, dbVars, sessVars, skip_existing, idx, pattempt, tries, skipped,
                   delayed, called, retryVars>>

\* the inter-date sleep ends: the loop goes to the next date
BfDelayEnds ==
    /\ bfPc = "delay"
    /\ delayed' = delayed \cup {idx}
    /\ idx' = idx + 1
    /\ bfPc' = "check"
    /\ UNCHANGED <<apiVars, fsVars, total, ingVars, dbVars, sessVars, skip_existing, pattempt, tries, skipped,
                   called, retryVars>>

\* a mutant of ClearedValidations: the list is left as it is after the report
ClearedKept(v) == v

\* `_all_validations.clear()` after the report
ClearedValidations(v) == {}

\* the loop is exhausted: summary, print_validation_report, clear, return
BfFinish ==
    /\ bfPc = "check"
    /\ idx > total
    /\ bfPc' = "done"
    /\ reported' = all_validations
    /\ all_validations' = ClearedValidations(all_validations)
    /\ UNCHANGED <<apiVars, fsVars, total, ingVars, dbVars, bfRuns, load_dims, dim_loads, skip_existing,
                   idx, pattempt, tries, skipped, delayed, called, retryVars>>

\* run_backfill has returned and the same process calls it again: the locals
\* of the call that returned are gone, the module-level list and the stores stay
BfReturn ==
    /\ bfPc = "done"
    /\ bfRuns < MaxBfRuns
    /\ bfPc' = "idle"
    /\ idx' = 0
    /\ pattempt' = 0
    /\ tries' = 0
    /\ raises' = 0
    /\ skipped' = 0
    /\ processed' = 0
    /\ failed' = 0
    /\ failed_dates' = <<>>
    /\ consecutive_errors' = 0
    /\ outcome' = [k \in 1 .. NumDates |-> "none"]
    /\ cooled' = {}
    /\ delayed' = {}
    /\ called' = {}
    /\ ApiFrameReset
    /\ UNCHANGED <<fsVars, total, ingVars, dbVars, sessVars, skip_existing, bwait, lastExc>>

\* KeyboardInterrupt while the main thread sleeps: in the handler of
\* process_with_retry, in the cooldown, or between two dates
BfInterrupt ==
    /\ bfPc \in {"backoff", "cooldown", "delay"}
    /\ bfPc' = "interrupted"
    /\ lastExc' = "KeyboardInterrupt"
    /\ UNCHANGED <<apiVars, fsVars, total, ingVars, dbVars, sessVars, skip_existing, idx, pattempt, tries, skipped,
                   delayed, called, raises, bwait, processed, failed, failed_dates,
                   consecutive_errors, outcome, cooled>>

\* the steps of run_backfill other than the discovery call
BfStep ==
    \/ BfStart
    \/ BfPrior
    \/ BfSkip
    \/ BfProcess
    \/ BfDownload
    \/ BfTransform
    \/ BfLoad
    \/ BfBackoffEnds
    \/ BfCooldownEnds
    \/ BfDelayEnds
    \/ BfFinish
    \/ BfInterrupt

BfNext == BfStep \/ BfDiscoverCall

AttemptNext == BfStep \/ BfDiscoverStep \/ BfDiscovered \/ BfDiscoverRaised

----------------------------------------------------------------------------
(* ingest_date: the pool of per-game downloads, thread by thread.  The game *)
(* ids come as the provider lists them (the rows of GameHeader are taken as *)
(* they are); every provider call has its own answer, so that a second      *)
(* download of an artifact is seen in the content of its file.              *)

\* ThreadPoolExecutor(max_workers=_MAX_CONCURRENT)
max_workers == _MAX_CONCURRENT

\* the futures of a call, by the position of their game id in game_ids
Futures == UNION {1 .. Len(ProviderGames(k)) : k \in 1 .. NumDates}

IngInit ==
    /\ ingPc = "idle"
    /\ ingDate = 0
    /\ run = 0
    /\ gpc = [n \in Futures |-> "none"]
    /\ gstep = [n \in Futures |-> 0]
    /\ started = {}
    /\ fetched = [a \in Artifacts |-> 0]
    /\ collected = {}
    /\ errors = <<>>

\* the game ids get_game_ids_for_date returned to the current call
game_ids == IF ingDate = 0 THEN <<>> ELSE ProviderGames(ingDate)

\* the artifact the download_* of future n is about
ArtifactOf(n) == <<Folders[gstep[n]], game_ids[n]>>

\* the provider's answer to the call that future n makes in the current call
\* of ingest_date: no two provider calls are taken to answer the same
Payload(n) == run * (Cardinality(Futures) + 1) + n

\* ingest_date(game_date) is called for one of the dates K, after the call
\* before it has ended
IngStartOn(K) ==
    /\ ingPc \in {"idle", "returned", "raised", "discovery_raised"}
    /\ run < MaxRuns
    /\ run' = run + 1
    /\ \E k \in K : ingDate' = k
    /\ ingPc' = "discover"
    /\ gpc' = [n \in Futures |-> "none"]
    /\ gstep' = [n \in Futures |-> 0]
    /\ started' = {}
    /\ fetched' = [a \in Artifacts |-> 0]
    /\ collected' = {}
    /\ errors' = <<>>
    /\ UNCHANGED <<apiVars, fsVars, bfVars, dbVars, sessVars>>

IngStart == IngStartOn(1 .. IngestDates)

\* game_ids = get_game_ids_for_date(game_date): the call raises out of
\* ingest_date, or returns the list; an empty list is written as an empty
\* manifest, the games of a non-empty one are submitted to the pool
IngDiscover ==
    /\ ingPc = "discover"
    /\ \E r \in {"returned", "raised"} :
          IF r = "raised"
          THEN /\ ingPc' = "discovery_raised"
               /\ UNCHANGED <<manifests, gpc>>
          ELSE IF game_ids = <<>>
          THEN /\ manifests' = [manifests EXCEPT ![dates[ingDate]] = <<>>]
               /\ ingPc' = "returned"
               /\ UNCHANGED gpc
          ELSE /\ ingPc' = "pool"
               /\ gpc' = [n \in Futures |->
                            IF n <= Len(game_ids) THEN "queued" ELSE "none"]
               /\ UNCHANGED manifests
    /\ UNCHANGED <<apiVars, bronze, silver, gold, bfVars, dbVars, sessVars, ingDate, run, gstep, started,
                   fetched, collected, errors>>

\* the futures a worker thread of the pool is running
Running == {n \in Futures : gpc[n] \in {"check", "call", "save"}}

\* the work queue of the pool is served in the order of submission
FirstQueued(n) ==
    /\ gpc[n] = "queued"
    /\ \A m \in 1 .. (n - 1) : gpc[m] # "queued"

\* a free worker takes _download_game(gid) from the queue
GameStart(n) ==
    /\ ingPc = "pool"
    /\ FirstQueued(n)
    /\ Cardinality(Running) < max_workers
    /\ gpc' = [gpc EXCEPT ![n] = "check"]
    /\ gstep' = [gstep EXCEPT ![n] = 1]
    /\ started' = started \cup {n}
    /\ UNCHANGED <<apiVars, fsVars, bfVars, dbVars, sessVars, ingPc, ingDate, run, fetched, collected,
                   errors>>

\* download_* returns: the next one of _download_game starts, or the game ends
GameAdvance(n) ==
    IF gstep[n] = Len(Folders)
    THEN gpc' = [gpc EXCEPT ![n] = "ok"] /\ gstep' = [gstep EXCEPT ![n] = 0]
    ELSE gpc' = [gpc EXCEPT ![n] = "check"] /\ gstep' = [gstep EXCEPT ![n] = @ + 1]

\* `if _already_exists(path): return`
GameCheck(n) ==
    /\ gpc[n] = "check"
    /\ IF _already_exists(ArtifactOf(n))
       THEN GameAdvance(n)
       ELSE gpc' = [gpc EXCEPT ![n] = "call"] /\ UNCHANGED gstep
    /\ UNCHANGED <<apiVars, fsVars, bfVars, dbVars, sessVars, ingPc, ingDate, run, started, fetched,
                   collected, errors>>

\* result = _api_call(...): the provider is called; the call returns the
\* payload or raises, which ends _download_game with the exception
GameCall(n) ==
    /\ gpc[n] = "call"
    /\ fetched' = [fetched EXCEPT ![ArtifactOf(n)] = @ + 1]
    /\ \E r \in {"returned", "raised"} :
          IF r = "returned"
          THEN gpc' = [gpc EXCEPT ![n] = "save"] /\ UNCHANGED gstep
          ELSE gpc' = [gpc EXCEPT ![n] = "failed"] /\ gstep' = [gstep EXCEPT ![n] = 0]
    /\ UNCHANGED <<apiVars, fsVars, bfVars, dbVars, sessVars, ingPc, ingDate, run, started, collected,
                   errors>>

\* _save_json(result.get_dict(), path): the file is opened for writing,
\* whatever it held
GameSave(n) ==
    /\ gpc[n] = "save"
    /\ bronze' = [bronze EXCEPT ![ArtifactOf(n)] = Payload(n)]
    /\ GameAdvance(n)
    /\ UNCHANGED <<apiVars, manifests, silver, gold, bfVars, dbVars, sessVars, ingPc, ingDate, run,
                   started, fetched, collected, errors>>

\* one round of `for future in as_completed(futures)`: future.result() of a
\* finished future returns, or raises and its game id is appended to errors
Collect(n) ==
    /\ ingPc = "pool"
    /\ gpc[n] \in {"ok", "failed"}
    /\ n \notin collected
    /\ collected' = collected \cup {n}
    /\ errors' = IF gpc[n] = "failed" THEN Append(errors, game_ids[n]) ELSE errors
    /\ UNCHANGED <<apiVars, fsVars, bfVars, dbVars, sessVars, ingPc, ingDate, run, gpc, gstep, started,
                   fetched>>

\* a mutant of PoolDrained: the with block is left at the first future that
\* raised, without waiting for the workers (shutdown(wait=False))
PoolLeftOnError ==
    \/ \A n \in 1 .. Len(game_ids) : n \in collected
    \/ errors # <<>>

\* as_completed is exhausted and the with block is left: every future has
\* been handled
PoolDrained == \A n \in 1 .. Len(game_ids) : n \in collected

\* a mutant of IngFinish: the manifest is saved before `if errors: raise`
IngFinishManifestFirst ==
    /\ ingPc = "pool"
    /\ PoolDrained
    /\ manifests' = [manifests EXCEPT ![dates[ingDate]] = game_ids]
    /\ ingPc' = IF errors # <<>> THEN "raised" ELSE "returned"
    /\ UNCHANGED <<apiVars, bronze, silver, gold, bfVars, dbVars, sessVars, ingDate, run, gpc, gstep,
                   started, fetched, collected, errors>>

\* `if errors: raise RuntimeError(...)`, else the manifest is saved
IngFinish ==
    /\ ingPc = "pool"
    /\ PoolDrained
    /\ IF errors # <<>>
       THEN /\ ingPc' = "raised"
            /\ UNCHANGED manifests
       ELSE /\ manifests' = [manifests EXCEPT ![dates[ingDate]] = game_ids]
            /\ ingPc' = "returned"
    /\ UNCHANGED <<apiVars, bronze, silver, gold, bfVars, dbVars, sessVars, ingDate, run, gpc, gstep,
                   started, fetched, collected, errors>>

IngNext ==
    \/ IngStart
    \/ IngDiscover
    \/ \E n \in Futures : GameStart(n)
    \/ \E n \in Futures : GameCheck(n)
    \/ \E n \in Futures : GameCall(n)
    \/ \E n \in Futures : GameSave(n)
    \/ \E n \in Futures : Collect(n)
    \/ IngFinish

----------------------------------------------------------------------------
(* ingest_date in a process that can die: _save_json in its two steps,      *)
(* open(path, "w") and json.dump(data, f).  Between them the file exists    *)
(* and holds nothing, or the part of the document written so far.           *)

\* what a file holds that was opened for writing and not written to its end
Truncated == 0 - 1

\* a manifest file in that state
TruncatedManifest == <<Truncated>>

\* the dates with at most one game
SingleGameDates == {k \in 1 .. IngestDates : Len(ProviderGames(k)) <= 1}

\* `with open(path, "w") as f:` of _save_json in a download_*: the file is
\* created, or emptied when it was there
GameOpen(n) ==
    /\ gpc[n] = "save"
    /\ bronze' = [bronze EXCEPT ![ArtifactOf(n)] = Truncated]
    /\ gpc' = [gpc EXCEPT ![n] = "dump"]
    /\ UNCHANGED <<apiVars, manifests, silver, gold, bfVars, dbVars, sessVars, ingPc, ingDate, run,
                   gstep, started, fetched, collected, errors>>

\* json.dump(data, f) has written the document and the file is closed
GameDump(n) ==
    /\ gpc[n] = "dump"
    /\ bronze' = [bronze EXCEPT ![ArtifactOf(n)] = Payload(n)]
    /\ GameAdvance(n)
    /\ UNCHANGED <<apiVars, manifests, silver, gold, bfVars, dbVars, sessVars, ingPc, ingDate, run,
                   started, fetched, collected, errors>>

\* get_game_ids_for_date raises or returns; for an empty list the manifest
\* file is opened for writing
DiscoverThenOpen ==
    /\ ingPc = "discover"
    /\ \E r \in {"returned", "raised"} :
          IF r = "raised"
          THEN /\ ingPc' = "discovery_raised"
               /\ UNCHANGED <<manifests, gpc>>
          ELSE IF game_ids = <<>>
          THEN /\ manifests' = [manifests EXCEPT ![dates[ingDate]] = TruncatedManifest]
               /\ ingPc' = "manifest"
               /\ UNCHANGED gpc
          ELSE /\ ingPc' = "pool"
               /\ gpc' = [n \in Futures |->
                            IF n <= Len(game_ids) THEN "queued" ELSE "none"]
               /\ UNCHANGED manifests
    /\ UNCHANGED <<apiVars, bronze, silver, gold, bfVars, dbVars, sessVars, ingDate, run, gstep, started,
                   fetched, collected, errors>>

\* `if errors: raise RuntimeError(...)`, else the manifest file is opened
\* for writing
FinishThenOpen ==
    /\ ingPc = "pool"
    /\ PoolDrained
    /\ IF errors # <<>>
       THEN /\ ingPc' = "raised"
            /\ UNCHANGED manifests
       ELSE /\ manifests' = [manifests EXCEPT ![dates[ingDate]] = TruncatedManifest]
            /\ ingPc' = "manifest"
    /\ UNCHANGED <<apiVars, bronze, silver, gold, bfVars, dbVars, sessVars, ingDate, run, gpc, gstep,
                   started, fetched, collected, errors>>

\* json.dump(manifest, f) has written the manifest and ingest_date returns
ManifestDump ==
    /\ ingPc = "manifest"
    /\ manifests' = [manifests EXCEPT ![dates[ingDate]] = game_ids]
    /\ ingPc' = "returned"
    /\ UNCHANGED <<apiVars, bronze, silver, gold, bfVars, dbVars, sessVars, ingDate, run, gpc, gstep,
                   started, fetched, collected, errors>>

\* the process is killed, or the main thread is interrupted while it writes
\* the manifest: its threads are gone, the files stay as they are, and a
\* new process can call ingest_date
ProcessDies ==
    /\ ingPc \in {"discover", "pool", "manifest"}
    /\ ingPc' = "idle"
    /\ gpc' = [n \in Futures |-> "none"]
    /\ gstep' = [n \in Futures |-> 0]
    /\ UNCHANGED <<apiVars, fsVars, bfVars, dbVars, sessVars, ingDate, run, started, fetched,
                   collected, errors>>

CrashNext ==
    \/ IngStartOn(SingleGameDates)
    \/ DiscoverThenOpen
    \/ \E n \in Futures : GameStart(n)
    \/ \E n \in Futures : GameCheck(n)
    \/ \E n \in Futures : GameCall(n)
    \/ \E n \in Futures : GameOpen(n)
    \/ \E n \in Futures : GameDump(n)
    \/ \E n \in Futures : Collect(n)
    \/ FinishThenOpen
    \/ ManifestDump
    \/ ProcessDies

----------------------------------------------------------------------------
(* gold.py: the loaders of the relational store.  A row of a table is the   *)
(* pair <<primary key, attribute values>>; a silver file is a sequence of   *)
(* such rows, possibly with a key repeated.                                 *)

GoldGames == {11, 31}

GoldPlayers == {7}

GoldTeams == {5, 6}

ActionNumbers == {1}

\* the attribute values a silver file can hold for a key: the facts of a key
\* come in two versions, the attributes of a dimension entry in one
Versions(t) == IF t \in DOMAIN ForeignKeys THEN {1, 2} ELSE {1}

\* PRIMARY KEY of SCHEMA_SQL: game_id; player_id; id; (game_id, player_id);
\* (game_id, team_id); (game_id, action_number); (game_id, game_event_id)
PrimaryKeys ==
    [games             |-> GoldGames,
     players           |-> GoldPlayers,
     teams             |-> GoldTeams,
     fact_player_stats |-> GoldGames \X GoldPlayers,
     fact_team_stats   |-> GoldGames \X GoldTeams,
     fact_play_by_play |-> GoldGames \X ActionNumbers,
     fact_shots        |-> GoldGames \X ActionNumbers]

\* what pd.read_parquet can return for the silver file of table t
Frames(t) == UNION {[1 .. n -> PrimaryKeys[t] \X Versions(t)] : n \in 1 .. MaxFrame}

PKsOf(rows) == {r[1] : r \in rows}

\* df.drop_duplicates(subset=primary key): the first row of every key stays
drop_duplicates(f) ==
    {f[i] : i \in {i \in 1 .. Len(f) : \A j \in 1 .. (i - 1) : f[j][1] # f[i][1]}}

\* a mutant of upsert: ON CONFLICT (pk) DO NOTHING
upsertDoNothing(tbl, df) == tbl \cup {r \in df : r[1] \notin PKsOf(tbl)}

\* upsert(df, table_name, primary_keys): INSERT INTO table SELECT * FROM
\* staging ON CONFLICT (pk) DO UPDATE SET c = EXCLUDED.c for every other
\* column c, in one transaction; every loader passes a frame without
\* repeated keys
upsert(tbl, df) == {r \in tbl : r[1] \notin PKsOf(df)} \cup df

GoldInit ==
    /\ db = [t \in DOMAIN PrimaryKeys |-> {}]
    /\ loadOp = [op |-> "none", kept |-> {}, dropped |-> {}, skipped |-> 0,
                 recovered |-> {}, updated |-> {}, raised |-> FALSE]
    /\ recent = [t \in DOMAIN PrimaryKeys |-> [k \in PrimaryKeys[t] |-> 0]]
    /\ wasSkipped = {}

\* the end of a loader of table t: the rows df are upserted (for an empty
\* frame the fact loaders return before upsert, which leaves the table as it
\* is); `dropped` are the rows the FK filter took out of the frame and n is
\* the skipped count the loader prints
Loaded(t, df, dropped, n) ==
    /\ db' = [db EXCEPT ![t] = upsert(@, df)]
    /\ recent' = [recent EXCEPT ![t] =
                    [k \in PrimaryKeys[t] |->
                        IF k \in PKsOf(df)
                        THEN (CHOOSE r \in df : r[1] = k)[2]
                        ELSE @[k]]]
    /\ loadOp' = [op |-> t,
                  kept |-> IF t \in DOMAIN ForeignKeys THEN PKsOf(df) ELSE {},
                  dropped |-> PKsOf(dropped),
                  skipped |-> n,
                  recovered |-> {k \in PKsOf(df) : <<t, k>> \in wasSkipped},
                  updated |-> {r[1] : r \in {r \in df : r[1] \in PKsOf(db[t]) /\ r \notin db[t]}},
                  raised |-> FALSE]
    /\ wasSkipped' = (wasSkipped \cup ({t} \X PKsOf(dropped))) \ ({t} \X PKsOf(df))
    /\ UNCHANGED <<apiVars, fsVars, bfVars, ingVars, sessVars, pipeVars, fnVars>>

\* the INSERT of upsert meets a row of df whose game or team is not in the
\* table its FOREIGN KEY refers to: the statement raises IntegrityError
ForeignKeyViolation(t, df) ==
    \E r \in df :
        \/ "games" \in ForeignKeys[t] /\ r[1][1] \notin PKsOf(db["games"])
        \/ t = "fact_team_stats" /\ r[1][2] \notin PKsOf(db["teams"])

\* the rows of df the INSERT of upsert can write: their game and team are in
\* the tables the FOREIGN KEYs of t refer to
Resolvable(t, df) == {r \in df : ~ForeignKeyViolation(t, {r})}

\* a mutant of LoadRaised: every row is committed as it is inserted, so the
\* rows the statement wrote before it raised stay in the table
LoadRaisedAutocommit(t, df) ==
    /\ db' = [db EXCEPT ![t] = upsert(@, Resolvable(t, df))]
    /\ loadOp' = [op |-> t, kept |-> PKsOf(Resolvable(t, df)),
                  dropped |-> PKsOf(df \ Resolvable(t, df)), skipped |-> 0,
                  recovered |-> {}, updated |-> {}, raised |-> TRUE]
    /\ UNCHANGED <<apiVars, fsVars, bfVars, ingVars, sessVars, pipeVars, fnVars,
                   recent, wasSkipped>>

\* the end of a loader of table t whose upsert of the staged rows df raises:
\* the exception leaves the block of `with engine.begin() as conn`, which
\* rolls back all the block did (the staging table and every row the INSERT
\* wrote), and then leaves the loader; loadOp keeps the keys of the staged
\* rows the INSERT could have written (kept) and of those that violate a
\* foreign key (dropped)
LoadRaised(t, df) ==
    /\ loadOp' = [op |-> t, kept |-> PKsOf(Resolvable(t, df)),
                  dropped |-> PKsOf(df \ Resolvable(t, df)), skipped |-> 0,
                  recovered |-> {}, updated |-> {}, raised |-> TRUE]
    /\ UNCHANGED <<apiVars, fsVars, bfVars, ingVars, sessVars, pipeVars, fnVars,
                   db, recent, wasSkipped>>

\* load_dim_teams()
load_dim_teams ==
    \E f \in Frames("teams") : Loaded("teams", drop_duplicates(f), {}, 0)

\* load_fact_team_stats(): drop_duplicates, then upsert of the whole frame
load_fact_team_stats ==
    \E f \in Frames("fact_team_stats") :
        IF ForeignKeyViolation("fact_team_stats", drop_duplicates(f))
        THEN LoadRaised("fact_team_stats", drop_duplicates(f))
        ELSE Loaded("fact_team_stats", drop_duplicates(f), {}, 0)

\* load_dim_players()
load_dim_players ==
    \E f \in Frames("players") : Loaded("players", drop_duplicates(f), {}, 0)

\* load_dim_games()
load_dim_games ==
    \E f \in Frames("games") : Loaded("games", drop_duplicates(f), {}, 0)

\* a mutant of FkOk: the filter on the games dimension is left out
FkOkPlayersOnly(t, r) ==
    t = "fact_player_stats" => r[1][2] \in PKsOf(db["players"])

\* the FK filter of the fact loaders: gold["game_id"].isin(existing_games),
\* and for the player stats also gold["player_id"].isin(existing_players)
\* (team ids are not filtered: the teams the frames refer to are taken as
\* loaded)
FkOk(t, r) ==
    /\ r[1][1] \in PKsOf(db["games"])
    /\ t = "fact_player_stats" => r[1][2] \in PKsOf(db["players"])

\* a fact loader: drop_duplicates, the FK filter, skipped = before - len(gold),
\* then upsert of what is left
load_fact(t) ==
    \E f \in Frames(t) :
        LET before == drop_duplicates(f)
            gold_df == {r \in before : FkOk(t, r)}
        IN  Loaded(t, gold_df, before \ gold_df,
                   Cardinality(before) - Cardinality(gold_df))

\* load_fact_player_stats()
load_fact_player_stats == load_fact("fact_player_stats")

\* load_fact_pbp()
load_fact_pbp == load_fact("fact_play_by_play")

GoldNext ==
    \/ load_dim_players
    \/ load_dim_games
    \/ load_fact_player_stats
    \/ load_fact_pbp

\* the loaders that read teams/team_game_logs.parquet
GoldTeamNext ==
    \/ load_dim_teams
    \/ load_dim_games
    \/ load_fact_team_stats

----------------------------------------------------------------------------
(* The pipeline of one date (ingest_date, process_date, load_date) with the *)
(* content of its files: the rows of a partition are the rows the converters *)
(* make of the artifacts of the games in the manifest.                       *)

\* the dates the pipeline can run for, by their index in the range
PipeDates == 1 .. IngestDates

\* what a bronze file can hold: a payload that converts to rows, one whose
\* rows fail a validation check, one without rows (no player, no action, an
\* empty rowSet), one without its top-level container (boxScoreAdvanced,
\* game.actions, resultSets[0]), one whose rows miss an expected field
\* (period, rowSet, ...), and a file that is no JSON document
PayloadShapes == {"rows", "issues", "empty", "no_container", "no_field", "undecodable"}

\* a mutant of PartitionPath: the partition is named by dataset and season
PartitionPathBySeason(f, k) ==
    <<f, CHOOSE j \in PipeDates :
            /\ get_nba_season(dates[j]) = get_nba_season(dates[k])
            /\ \A i \in PipeDates :
                  get_nba_season(dates[i]) = get_nba_season(dates[k]) => j <= i>>

\* {SILVER}/{dataset}/season={season}/game_date={game_date}/data.parquet
PartitionPath(f, k) == <<f, k>>

PipeInit ==
    /\ pipePc = "idle"
    /\ pipeDate = 0
    /\ pipeRuns = 0
    /\ partRows = [p \in Range(Folders) \X PipeDates |-> <<>>]
    /\ snapshot = <<>>
    /\ shape = [a \in Artifacts |-> "rows"]
    /\ procLog = {}
    /\ relisted = FALSE
    /\ completed = {}

\* what the pipeline keeps between runs
Stores == <<bronze, manifests, silver, partRows, db>>

\* the key of the row a converter makes of the artifact of game g in folder n:
\* (game, player) for a box score, (game, action or event number) otherwise
RowKey(n, g) ==
    <<g, IF Folders[n] = "boxscores" THEN CHOOSE p \in GoldPlayers : TRUE
         ELSE CHOOSE a \in ActionNumbers : TRUE>>

\* a mutant of Checked: a frame with a validation issue is not returned
CheckedOrDropped(df, issues) == IF issues THEN <<>> ELSE df

\* v = _validate(...); v.check_...(df, ...); return df: the checks append to
\* v.issues and log, the frame is returned as it is
Checked(df, issues) == df

\* converter(path) for the file of game g in folder n that holds a payload of
\* shape s: json.load raises on a file that is no JSON; a missing container
\* is caught, logged and gives an empty frame; convert_boxscore reads every
\* inner field with .get (a missing one gives nulls, which the checks
\* report), convert_pbp and convert_shotchart index them and raise KeyError
Convert(n, g, s) ==
    LET throws == s = "undecodable" \/ (s = "no_field" /\ Folders[n] # "boxscores")
        norows == s \in {"no_container", "empty"} \/ NoRows(Folders[n], g)
        issues == s \in {"issues", "no_field"}
    IN  [raises |-> throws,
         warned |-> ~throws /\ s = "no_container",
         issues |-> ~throws /\ ~norows /\ issues,
         rows   |-> IF throws \/ norows THEN <<>>
                    ELSE Checked(<< <<RowKey(n, g), bronze[<<Folders[n], g>>]>> >>, issues)]

RECURSIVE ConvertedFrames(_, _, _, _)
\* process_date, dataset n: `for gid in game_ids`, the frame of every file
\* that exists and converts to rows, concatenated from list position i on
ConvertedFrames(n, ids, i, sh) ==
    IF i > Len(ids) THEN <<>>
    ELSE LET a == <<Folders[n], ids[i]>>
         IN  (IF bronze[a] # 0 THEN Convert(n, ids[i], sh[a]).rows ELSE <<>>)
             \o ConvertedFrames(n, ids, i + 1, sh)

\* a mutant of _save_partitioned: the rows are added to the file that is there
_save_partitioned_append(old, df) == old \o df

\* _save_partitioned: df.to_parquet(out_path) replaces data.parquet
_save_partitioned(old, df) == df

\* the list position at which the loop of dataset n meets a file whose
\* converter raises, Len(ids) + 1 if it meets none
RaiseAt(n, ids, sh) ==
    LET R == {i \in 1 .. Len(ids) :
                 /\ bronze[<<Folders[n], ids[i]>>] # 0
                 /\ Convert(n, ids[i], sh[<<Folders[n], ids[i]>>]).raises}
    IN  IF R = {} THEN Len(ids) + 1 ELSE CHOOSE i \in R : \A j \in R : i <= j

\* a mutant of NoData: the message is logged at level info
NoDataInfo(f) == <<"info", f, 0>>

\* logger.warning("No %s data for %s", dataset, game_date)
NoData(f) == <<"warning", f, 0>>

\* process_date(game_date) for the date of index k on files of the shapes
\* sh, when the write of dataset fail + 1 raises, if that dataset has frames
\* to write (fail = Len(Folders): no write raises): the datasets it saves, what it logs and puts into the
\* accumulator, and whether it returns.  A log entry is <<level, dataset,
\* game id>> (game id 0: about the dataset or the date as a whole); the
\* exception that ends the run is kept with it as <<"raised", dataset, game>>.
process_date(k, sh, fail) ==
    LET ids == manifests[dates[k]]
        Raising == {n \in 1 .. Len(Folders) : RaiseAt(n, ids, sh) <= Len(ids)}
        failing == IF fail < Len(Folders) /\ ConvertedFrames(fail + 1, ids, 1, sh) # <<>>
                   THEN fail + 1 ELSE Len(Folders) + 1
        stop == IF \E n \in Raising : n <= failing
                THEN CHOOSE n \in Raising : \A m \in Raising : n <= m
                ELSE failing
        met == {p \in (1 .. Len(Folders)) \X (1 .. Len(ids)) :
                   /\ p[1] <= stop
                   /\ p[2] < RaiseAt(p[1], ids, sh)
                   /\ bronze[<<Folders[p[1]], ids[p[2]]>>] # 0}
        out(p) == Convert(p[1], ids[p[2]], sh[<<Folders[p[1]], ids[p[2]]>>])
    IN  IF ids = <<>>
        THEN [saved |-> {}, log |-> {<<"info", "", 0>>}, returned |-> TRUE]
        ELSE [saved |-> {n \in 1 .. (stop - 1) : ConvertedFrames(n, ids, 1, sh) # <<>>},
              log |-> {<<"warning", Folders[p[1]], ids[p[2]]>> : p \in {p \in met : out(p).warned}}
                      \cup {<<"issues", Folders[p[1]], ids[p[2]]>> : p \in {p \in met : out(p).issues}}
                      \cup {NoData(Folders[n]) :
                               n \in {n \in 1 .. (stop - 1) : ConvertedFrames(n, ids, 1, sh) = <<>>}}
                      \cup (IF stop > Len(Folders) THEN {}
                            ELSE IF stop \in Raising
                            THEN {<<"raised", Folders[stop], ids[RaiseAt(stop, ids, sh)]>>}
                            ELSE {<<"raised", Folders[stop], 0>>}),
              returned |-> stop > Len(Folders)]

\* the dates something is stored for
StoredDates ==
    {k \in PipeDates :
        \/ manifests[dates[k]] # NoManifest
        \/ \E a \in Artifacts : a[2] \in Range(ProviderGames(k)) /\ bronze[a] # 0}

\* a run of the pipeline starts for one of the dates K
PipeStartOn(K) ==
    /\ pipePc = "idle"
    /\ pipeRuns < MaxRuns
    /\ pipeDate' \in K
    /\ pipePc' = "ingest"
    /\ UNCHANGED <<apiVars, fsVars, bfVars, ingVars, sessVars, goldVars, fnVars, pipeRuns,
                   partRows, snapshot, shape, procLog, relisted, completed>>

\* a run of the pipeline for a date starts; every run of the process is for
\* the same date
PipeStart == PipeStartOn(IF pipeDate = 0 THEN PipeDates ELSE {pipeDate})

\* a run of the pipeline starts for any of the first MaxPipeDates + 1 dates,
\* as long as no more than MaxPipeDates dates get processed
PipeStartAny ==
    PipeStartOn({k \in PipeDates \cap (1 .. MaxPipeDates + 1) :
                    Cardinality(StoredDates \cup {k}) <= MaxPipeDates})

\* the dimensions are loaded before the first run of the pipeline (or not at
\* all): every game of the provider, every player
PipeLoadDims ==
    /\ pipePc = "idle"
    /\ pipeDate = 0
    /\ db["games"] = {}
    /\ db' = [db EXCEPT !["games"] = upsert(@, AllGames \X {1}),
                        !["players"] = upsert(@, GoldPlayers \X {1})]
    /\ UNCHANGED <<apiVars, fsVars, bfVars, ingVars, sessVars, loadOp, recent, wasSkipped,
                   pipeVars, fnVars>>

\* between two runs the provider takes the games of the date off its
\* scoreboard: from now on ScoreboardV2 lists no game for it
ProviderRelists ==
    /\ pipePc = "idle"
    /\ pipeDate # 0
    /\ ~relisted
    /\ relisted' = TRUE
    /\ UNCHANGED <<apiVars, fsVars, bfVars, ingVars, sessVars, goldVars, fnVars, pipePc,
                   pipeDate, pipeRuns, partRows, snapshot, shape, procLog, completed>>

\* ingest_date(D) in one step: discovery raises (with an error of E), or a
\* download raises (those of a set of Fs; RuntimeError, no manifest), or the
\* manifest is written
PipeIngestWith(E, Fs) ==
    /\ pipePc = "ingest"
    /\ \E e \in {"none"} \cup E, F \in Fs :
          LET ids == IF relisted THEN <<>> ELSE ProviderGames(pipeDate)
              r == DownloadAll(bronze, ids, 1, F)
              ok == e = "none" /\ r.errors = <<>>
          IN  /\ e # "none" => F = {}
              /\ ids = <<>> => F = {}
              /\ bronze' = IF e = "none" THEN r.bronze ELSE bronze
              /\ manifests' = IF ok THEN [manifests EXCEPT ![dates[pipeDate]] = ids]
                              ELSE manifests
              /\ pipePc' = IF ok THEN "process" ELSE "idle"
    /\ UNCHANGED <<apiVars, silver, gold, bfVars, ingVars, sessVars, goldVars, fnVars,
                   pipeDate, pipeRuns, partRows, snapshot, shape, procLog, relisted,
                   completed>>

PipeIngest == PipeIngestWith(ProviderErrors, DownloadFailures(pipeDate))

\* ingest_date(D) with a provider that answers every call
PipeIngestWhole == PipeIngestWith({}, {{}})

\* process_date(D): every dataset it saves replaces the partition of the date
PipeProcess ==
    /\ pipePc = "process"
    /\ \E fail \in TransformFailPoints \cup {Len(Folders)} :
          LET d == dates[pipeDate]
              r == process_date(pipeDate, shape, fail)
              Saved == {PartitionPath(Folders[n], pipeDate) : n \in r.saved}
          IN  /\ partRows' = [p \in DOMAIN partRows |->
                                IF p \in Saved
                                THEN _save_partitioned(partRows[p],
                                        ConvertedFrames(
                                            CHOOSE n \in r.saved :
                                                PartitionPath(Folders[n], pipeDate) = p,
                                            manifests[d], 1, shape))
                                ELSE partRows[p]]
              /\ silver' = silver \cup {<<Folders[n], get_nba_season(d), d>> : n \in r.saved}
              /\ procLog' = r.log
              /\ pipePc' = IF r.returned THEN "load" ELSE "idle"
    /\ UNCHANGED <<apiVars, manifests, bronze, gold, bfVars, ingVars, sessVars, goldVars,
                   fnVars, pipeDate, pipeRuns, snapshot, shape, relisted, completed>>

\* load_date(D): the fact loaders in order, each on the partition of the date
\* (drop_duplicates, FK filter, upsert); an exception ends it after n of
\* them.  A run that gets through is complete, and the first complete run
\* is remembered.
PipeLoadWith(FailPoints) ==
    /\ pipePc = "load"
    /\ \E n \in FailPoints \cup {Len(FactTables)} :
          /\ db' = [t \in DOMAIN db |->
                      IF \E k \in 1 .. n : FactTables[k] = t
                      THEN LET k == CHOOSE k \in 1 .. n : FactTables[k] = t
                               df == drop_duplicates(partRows[PartitionPath(Folders[k], pipeDate)])
                           IN  upsert(db[t], {r \in df : FkOk(t, r)})
                      ELSE db[t]]
          /\ pipePc' = "idle"
          /\ pipeRuns' = IF n = Len(FactTables) THEN pipeRuns + 1 ELSE pipeRuns
          /\ completed' = IF n = Len(FactTables) THEN completed \cup {pipeDate} ELSE completed
          /\ snapshot' = IF n = Len(FactTables) /\ pipeRuns = 0
                         THEN <<bronze, manifests, silver, partRows, db'>>
                         ELSE snapshot
    /\ UNCHANGED <<apiVars, fsVars, bfVars, ingVars, sessVars, loadOp, recent, wasSkipped,
                   fnVars, pipeDate, partRows, shape, procLog, relisted>>

PipeLoad == PipeLoadWith(LoadFailPoints)

\* load_date(D) with a database that takes every statement
PipeLoadWhole == PipeLoadWith({})

PipeNext ==
    \/ PipeStart
    \/ PipeLoadDims
    \/ PipeIngest
    \/ PipeProcess
    \/ PipeLoad

\* the same with a provider that changes its scoreboard between runs
RelistNext ==
    \/ PipeStart
    \/ PipeLoadDims
    \/ ProviderRelists
    \/ PipeIngest
    \/ PipeProcess
    \/ PipeLoad

\* the pipeline run for one date after the other, in any order; the
\* transformation of a run may fail part-way
DatesNext ==
    \/ PipeStartAny
    \/ PipeLoadDims
    \/ PipeIngestWhole
    \/ PipeProcess
    \/ PipeLoadWhole

----------------------------------------------------------------------------
(* Pure functions of the silver layer, applied to an input drawn at the     *)
(* start.  A string is the sequence of its characters; a float is kept as   *)
(* the decimal fraction <<n, k>> that stands for n / 10^k, without trailing *)
(* zeros (the rounding of binary floating point is left out).               *)

Digits == <<"0", "1", "2", "3", "4", "5", "6", "7", "8", "9">>

DigitOf(c) == (CHOOSE n \in 1 .. 10 : Digits[n] = c) - 1

\* the decimal digits of n, zero-padded to width w
Pad(n, w) == [i \in 1 .. w |-> Digits[((n \div (10 ^ (w - i))) % 10) + 1]]

\* current.strftime("%Y-%m-%d")
strftime(d) == Pad(d[1], 4) \o <<"-">> \o Pad(d[2], 2) \o <<"-">> \o Pad(d[3], 2)

RECURSIVE IntOf(_)
\* the number a digit string denotes
IntOf(s) ==
    IF s = <<>> THEN 0 ELSE IntOf(SubSeq(s, 1, Len(s) - 1)) * 10 + DigitOf(s[Len(s)])

\* datetime.strptime(game_date, "%Y-%m-%d") of a string of that format
strptime(s) == <<IntOf(SubSeq(s, 1, 4)), IntOf(SubSeq(s, 6, 7)), IntOf(SubSeq(s, 9, 10))>>

\* the years the dates are drawn from (those of the test dates among them)
SeasonYears == {2000, 2005, 2012, 2018, 2019, 2023, 2024}

SeasonDates ==
    {d \in SeasonYears \X (1 .. 12) \X (1 .. 31) : d[3] <= DaysIn(d[1], d[2])}

SeasonInputs == {[type |-> "date", chars |-> strftime(d), date |-> d] : d \in SeasonDates}

\* the clock values of a play-by-play frame: strings made of a prefix, a body
\* of up to MaxClockBody characters and a suffix, and the values pandas
\* holds for a missing clock
ClockPrefixes == {<<>>, <<"P">>, <<"P", "T">>}

ClockSuffixes == {<<>>, <<"S">>, <<"S", "S">>}

BodyChars == {"0", "1", ".", "M", "x"}

\* the bodies of up to n characters
ClockBodies(n) == UNION {[1 .. m -> BodyChars] : m \in 0 .. n}

\* the clock values with a body of up to n characters
ClockInputs(n) ==
    {[type |-> "str", chars |-> p \o b \o x, date |-> <<>>] :
        p \in ClockPrefixes, b \in ClockBodies(n), x \in ClockSuffixes}
    \cup {[type |-> y, chars |-> <<>>, date |-> <<>>] : y \in {"NoneType", "float"}}

None == [kind |-> "None", value |-> <<0, 0>>]

Float(x) == [kind |-> "float", value |-> x]

Raised(e) == [kind |-> "raised", value |-> <<0, 0>>, exception |-> e]

\* clock_str.startswith("PT")
startswith(s, p) == Len(s) >= Len(p) /\ SubSeq(s, 1, Len(p)) = p

RECURSIVE rstrip(_, _)
\* rest.rstrip("S"): every trailing S is taken off
rstrip(s, c) ==
    IF s # <<>> /\ s[Len(s)] = c THEN rstrip(SubSeq(s, 1, Len(s) - 1), c) ELSE s

\* a mutant of float_ok: only strings of digits are numbers
float_ok_digits_only(s) == s # <<>> /\ \A i \in 1 .. Len(s) : s[i] \in Range(Digits)

\* float(s) does not raise ValueError: over the characters above, s is made
\* of digits with at most one point and at least one digit
float_ok(s) ==
    /\ \A i \in 1 .. Len(s) : s[i] \in Range(Digits) \cup {"."}
    /\ Cardinality({i \in 1 .. Len(s) : s[i] = "."}) <= 1
    /\ \E i \in 1 .. Len(s) : s[i] \in Range(Digits)

RECURSIVE Decimal(_, _)
\* n / 10^k without trailing zeros
Decimal(n, k) == IF k > 0 /\ n % 10 = 0 THEN Decimal(n \div 10, k - 1) ELSE <<n, k>>

\* float(s) of such a string
float(s) ==
    LET dot == IF \E i \in 1 .. Len(s) : s[i] = "."
               THEN CHOOSE i \in 1 .. Len(s) : s[i] = "." ELSE Len(s) + 1
        frac == SubSeq(s, dot + 1, Len(s))
    IN  Decimal(IntOf(SubSeq(s, 1, dot - 1)) * (10 ^ Len(frac)) + IntOf(frac), Len(frac))

\* float(mins) * 60 + float(secs)
Seconds(m, x) ==
    LET k == IF m[2] > x[2] THEN m[2] ELSE x[2]
    IN  Decimal(m[1] * (10 ^ (k - m[2])) * 60 + x[1] * (10 ^ (k - x[2])), k)

\* except (ValueError, AttributeError): return None
ClockCaught == {"ValueError", "AttributeError"}

\* _parse_clock(clock_str): the body of the try block either returns a float
\* or raises (the unpacking of a split that has not two parts, a float() of
\* a string that is no number); what is raised and caught makes None
_parse_clock(a) ==
    IF a.type # "str" \/ ~startswith(a.chars, <<"P", "T">>) THEN None
    ELSE LET t == SubSeq(a.chars, 3, Len(a.chars))
             ms == {i \in 1 .. Len(t) : t[i] = "M"}
             i == CHOOSE i \in ms : TRUE
             mins == SubSeq(t, 1, i - 1)
             rest == SubSeq(t, i + 1, Len(t))
             body == IF Cardinality(ms) # 1 THEN Raised("ValueError")
                     ELSE IF ~float_ok(mins) THEN Raised("ValueError")
                     ELSE IF ~float_ok(rstrip(rest, "S")) THEN Raised("ValueError")
                     ELSE Float(Seconds(float(mins), float(rstrip(rest, "S"))))
         IN  IF body.kind = "raised" /\ body.exception \in ClockCaught THEN None
             ELSE body

Pending == [kind |-> "pending", value |-> <<0, 0>>]

\* no function is being applied
FnIdle ==
    /\ fnArg = [type |-> "none", chars |-> <<>>, date |-> <<>>]
    /\ fnRet = Pending

\* get_nba_season(game_date) is called on the text of a date
SeasonCall ==
    /\ fnArg.type = "date"
    /\ fnRet = Pending
    /\ fnRet' = [kind |-> "int", value |-> <<get_nba_season(strptime(fnArg.chars)), 0>>]
    /\ UNCHANGED <<apiVars, fsVars, bfVars, ingVars, sessVars, goldVars, pipeVars, fnArg>>

\* df["clock"].apply(_parse_clock) comes to a clock value
ClockCall ==
    /\ fnArg.type \in {"str", "NoneType", "float"}
    /\ fnRet = Pending
    /\ fnRet' = _parse_clock(fnArg)
    /\ UNCHANGED <<apiVars, fsVars, bfVars, ingVars, sessVars, goldVars, pipeVars, fnArg>>

PureNext ==
    \/ SeasonCall
    \/ ClockCall

----------------------------------------------------------------------------
(* Specifications *)

Init ==
    ApiInit /\ StoreInit /\ BfInit(NumDates) /\ IngInit /\ GoldInit /\ PipeInit /\ FnIdle

\* the same with the short range
AttemptInit ==
    ApiInit /\ StoreInit /\ BfInit(AttemptDates) /\ IngInit /\ GoldInit /\ PipeInit /\ FnIdle

ApiNext ==
    /\ \E t \in Callers : ApiStep(t, MaxFailures)
    /\ UNCHANGED <<fsVars, bfVars, ingVars, dbVars, sessVars>>

ApiRetryNext ==
    /\ \E t \in 1 .. RetryCallers : ApiStep(t, MaxRetryFailures)
    /\ UNCHANGED <<fsVars, bfVars, ingVars, dbVars, sessVars>>

\* more callers than permits, a few provider failures
SpecApi == Init /\ [][ApiNext]_vars

\* few callers, enough provider failures to exhaust the attempts of one
SpecApiRetry == Init /\ [][ApiRetryNext]_vars

\* run_backfill over the range, the discovery call taken as one step
SpecBackfill == Init /\ [][BfNext]_vars

\* run_backfill over a short range, the discovery call followed through the
\* retry loop of _api_call
SpecAttempt == AttemptInit /\ [][AttemptNext]_vars

\* calls of ingest_date, one after the other, over the same bronze store
SpecIngest == Init /\ [][IngNext]_vars

\* calls of ingest_date for the dates of at most one game, in processes that
\* can die at any point
SpecCrash == Init /\ [][CrashNext]_vars

\* one process that calls run_backfill up to MaxBfRuns times on the same
\* range, with or without --load-dims, starting from empty stores
RerunInit ==
    ApiInit /\ StoreInit /\ BfInit(RerunDates) /\ IngInit /\ GoldInit /\ PipeInit /\ FnIdle

RerunNext ==
    \/ BfStart
    \/ BfStartDims
    \/ BfLoadDimensions
    \/ BfSkip
    \/ BfProcess
    \/ BfDiscoverCall
    \/ BfDownload
    \/ BfTransform
    \/ BfLoad
    \/ BfBackoffEnds
    \/ BfCooldownEnds
    \/ BfDelayEnds
    \/ BfFinish
    \/ BfInterrupt
    \/ BfReturn

SpecRerun == RerunInit /\ [][RerunNext]_vars

\* run_backfill from empty stores (no date is found done, so none is
\* skipped), the discovery call followed through _api_call
FreshNext ==
    \/ BfStart
    \/ BfProcess
    \/ BfDiscoverStep
    \/ BfDiscovered
    \/ BfDiscoverRaised
    \/ BfDownload
    \/ BfTransform
    \/ BfLoad
    \/ BfBackoffEnds
    \/ BfCooldownEnds
    \/ BfDelayEnds
    \/ BfFinish
    \/ BfInterrupt

\* the same over the shortest range on which the cooldown can happen, when
\* every provider call returns or raises and every sleep ends: a step that
\* can be taken is taken
SpecAttemptFair == RerunInit /\ [][FreshNext]_vars /\ WF_vars(FreshNext)

\* a pure function applied once to any of its inputs
PureInit ==
    /\ ApiInit /\ StoreInit /\ BfInit(NumDates) /\ IngInit /\ GoldInit /\ PipeInit
    /\ fnArg \in SeasonInputs \cup ClockInputs(MaxClockBody)
    /\ fnRet = Pending

SpecPure == PureInit /\ [][PureNext]_vars

\* the loaders of gold.py called in any order, on any silver files
SpecGold == Init /\ [][GoldNext]_vars

\* the dimension and fact loaders of the team game logs, in any order, on
\* any content of the file
SpecGoldTeam == Init /\ [][GoldTeamNext]_vars

\* the pipeline of one date, run up to MaxRuns times to the end, with runs
\* that fail on the way in between
SpecPipeline == Init /\ [][PipeNext]_vars

\* the same, the provider taking the games off its scoreboard at some point
SpecRelist == Init /\ [][RelistNext]_vars

\* the pipeline of up to MaxPipeDates dates, in any order
SpecDates == Init /\ [][DatesNext]_vars

\* the games of date k, and their artifacts
Listed(k) == Range(Folders) \X Range(ProviderGames(k))

\* process_date is about to run for a date whose manifest is written: every
\* file of its games is in bronze, but for up to MaxOdd of them, each of
\* which is gone or holds something else than a payload with valid rows
TransformInit ==
    /\ ApiInit /\ BfInit(NumDates) /\ IngInit /\ GoldInit /\ FnIdle
    /\ pipeDate \in PipeDates
    /\ pipePc = "process"
    /\ pipeRuns = 0
    /\ partRows = [p \in Range(Folders) \X PipeDates |-> <<>>]
    /\ snapshot = <<>>
    /\ procLog = {}
    /\ relisted = FALSE
    /\ completed = {}
    /\ manifests = [d \in DateSet |->
                      IF d = dates[pipeDate] THEN ProviderGames(pipeDate) ELSE NoManifest]
    /\ silver = {}
    /\ gold = {}
    /\ \E odd \in SUBSET Listed(pipeDate) :
          /\ Cardinality(odd) <= MaxOdd
          /\ \E o \in [odd -> (PayloadShapes \ {"rows"}) \cup {"missing"}] :
                /\ bronze = [a \in Artifacts |->
                               IF a \in Listed(pipeDate) /\ (a \notin odd \/ o[a] # "missing")
                               THEN 1 ELSE 0]
                /\ shape = [a \in Artifacts |->
                              IF a \in odd /\ o[a] # "missing" THEN o[a] ELSE "rows"]

TransformNext == PipeProcess

\* process_date on the files of a date, some of them not as they should be
SpecTransform == TransformInit /\ [][TransformNext]_vars

----------------------------------------------------------------------------
(* Properties of the API caller *)

InFlight == {t \in Callers : callPc[t] = "fn"}

\* C1: under every interleaving of the callers of _api_call, the number of
\* provider functions executing at the same time never exceeds _MAX_CONCURRENT.
C1_ConcurrencyBound == Cardinality(InFlight) <= _MAX_CONCURRENT

\* all permits are taken and one more caller is waiting at the semaphore
C1_Witness ==
    /\ Cardinality(InFlight) = _MAX_CONCURRENT
    /\ \E t \in Callers : callPc[t] = "acquire"

\* C2: one logical _api_call invokes the provider function at most
\* _MAX_RETRIES times; it returns the result of the first invocation that
\* succeeds (every earlier invocation raised and was followed by one backoff
\* sleep) and invokes nothing after it; when all five invocations raise, the
\* error of the fifth is raised to the caller and only the first four
\* failures were followed by a sleep.
C2_BoundedAttempts ==
    \A t \in Callers :
        /\ invoked[t] <= _MAX_RETRIES
        /\ callPc[t] \in {"delay", "returned"} =>
              /\ result[t] = invoked[t]
              /\ backoffs[t] = invoked[t] - 1
        /\ (callPc[t] = "raised" /\ exc[t] # "KeyboardInterrupt") =>
              /\ exc[t] \in ProviderErrors
              /\ invoked[t] = _MAX_RETRIES
              /\ excOf[t] = _MAX_RETRIES
              /\ backoffs[t] = _MAX_RETRIES - 1
              /\ result[t] = 0

\* one caller has exhausted its five attempts and another has returned the
\* result of its second invocation
C2_Witness ==
    \E t, u \in Callers :
        /\ callPc[t] = "raised" /\ exc[t] \in ProviderErrors /\ invoked[t] = _MAX_RETRIES
        /\ callPc[u] = "returned" /\ result[u] = 2

\* ---------------------------------------------------------------------
\* run_backfill: classification of the dates

\* the dates the loop has classified so far
Classified == {k \in 1 .. total : outcome[k] # "none"}

\* the loop leaves its idempotency check for the date at idx
LeavesCheck == bfPc = "check" /\ idx <= total /\ (idx' # idx \/ bfPc' # bfPc)

\* the manifest of d exists and lists no game, or the boxscore partition of
\* (season of d, d) exists
ManifestDone(d) ==
    /\ manifests[d] # NoManifest
    /\ \/ Len(manifests[d]) = 0
       \/ <<"boxscores", get_nba_season(d), d>> \in silver

\* C3: with skip_existing on, a date is classified Skipped if and only if its
\* manifest exists and either lists no game or the boxscore silver partition
\* of (season of the date, date) exists; classifying a date Skipped calls the
\* provider for it at no time and writes nothing to bronze, silver or gold.
C3_SkippedIffDone ==
    /\ [](\A k \in 1 .. total : outcome[k] = "Skipped" => k \notin called)
    /\ [][LeavesCheck /\ skip_existing =>
            /\ (outcome'[idx] = "Skipped") <=> ManifestDone(dates[idx])
            /\ outcome'[idx] = "Skipped" => UNCHANGED <<fsVars, called, apiVars>>]_vars

\* C3 witness: an ingested date with games but without its boxscore partition
\* is being processed after a date with games was Skipped
C3_Witness ==
    /\ skip_existing
    /\ bfPc = "discover"
    /\ manifests[dates[idx]] # NoManifest
    /\ ~ManifestDone(dates[idx])
    /\ \E k \in 1 .. (idx - 1) :
          outcome[k] = "Skipped" /\ Len(manifests[dates[k]]) > 0

\* C4: a date that is not Skipped is attempted at most MAX_RETRIES times; it
\* is Succeeded at the first attempt that completes (every attempt before it
\* raised) and Failed exactly when MAX_RETRIES attempts raised; the failed
\* list holds exactly the Failed dates, each once and in order, and the run
\* ends only when every date of the range has been classified.
C4_RetryOutcome ==
    /\ tries <= MAX_RETRIES
    /\ raises <= tries
    /\ bfPc \in {"cooldown", "delay"} =>
          /\ outcome[idx] \in {"Succeeded", "Failed"}
          /\ outcome[idx] = "Succeeded" => raises = tries - 1
          /\ outcome[idx] = "Failed" <=> raises = MAX_RETRIES
    /\ Len(failed_dates) = failed
    /\ Cardinality(Range(failed_dates)) = failed
    /\ Range(failed_dates) = {dates[k] : k \in {j \in 1 .. total : outcome[j] = "Failed"}}
    /\ bfPc = "done" => Classified = 1 .. total

\* C4 witness: a date succeeds at its third attempt after an earlier date
\* of the run has Failed
C4_Witness ==
    /\ bfPc = "delay"
    /\ outcome[idx] = "Succeeded"
    /\ tries = 3
    /\ \E k \in 1 .. (idx - 1) : outcome[k] = "Failed"

\* the consecutive-failure count after the first k dates, from the outcomes
RECURSIVE Streak(_)
Streak(k) ==
    IF k = 0 THEN 0
    ELSE IF outcome[k] = "Failed" THEN Streak(k - 1) + 1
    ELSE IF outcome[k] = "Succeeded" THEN 0
    ELSE Streak(k - 1)

\* C5: the consecutive-failure counter is the number of Failed dates since
\* the last Succeeded one (Skipped dates leave it alone), and the cooldown is
\* taken exactly after the Failed dates at which that number is at least 3.
C5_CooldownOnStreak ==
    /\ consecutive_errors = Streak(total)
    /\ cooled = {k \in 1 .. total : outcome[k] = "Failed" /\ Streak(k) >= 3}
    /\ bfPc = "cooldown" => idx \in cooled

\* C5 witness: two Failed dates, a Skipped one, and the cooldown after the
\* third Failed date
C5_Witness ==
    /\ bfPc = "cooldown"
    /\ idx = 4
    /\ outcome[3] = "Skipped"
    /\ cooled = {4}

\* C6 as stated: the inter-date delay has been taken after every date the
\* loop has gone past, whatever its outcome
C6_DelayAfterEveryDate ==
    \A k \in 1 .. total : (k < idx /\ outcome[k] # "none") => k \in delayed

\* C6 amended: the inter-date delay is taken after exactly the dates that
\* were Succeeded or Failed; a Skipped date is followed by the next date at
\* once.
C6_DelayAfterProcessed ==
    delayed = {k \in 1 .. total : k < idx /\ outcome[k] \in {"Succeeded", "Failed"}}

\* C6 witness: the run ends with a Skipped, a Succeeded and a Failed date
C6_Witness ==
    /\ bfPc = "done"
    /\ \E i, j, k \in 1 .. total :
          /\ outcome[i] = "Skipped" /\ i \notin delayed
          /\ outcome[j] = "Succeeded" /\ j \in delayed
          /\ outcome[k] = "Failed" /\ k \in delayed

\* what process_with_retry and run_backfill record about the attempts
AttemptRecord ==
    <<idx, pattempt, tries, raises, bwait, failed, failed_dates, processed,
      consecutive_errors, outcome, cooled, delayed>>

StepOf(n) == <<gpc[n], gstep[n]>>' # <<gpc[n], gstep[n]>>

\* the futures of the current call whose _download_game raised
FailedFutures == {n \in 1 .. Len(game_ids) : gpc[n] = "failed"}

\* C8: a download_* that finds its artifact does not call the provider and
\* does not touch the file, and the content of an artifact that has been
\* written is the same after every step of every call of ingest_date.
C8_ArtifactWriteOnce ==
    [][/\ \A n \in Futures :
             (gpc[n] = "check" /\ StepOf(n) /\ bronze[ArtifactOf(n)] # 0) =>
                gpc'[n] # "call" /\ UNCHANGED <<bronze, fetched>>
       /\ \A a \in Artifacts : bronze[a] # 0 => bronze'[a] = bronze[a]]_vars

\* C9 as stated: when ingest_date raises for failed games, the manifest of
\* the date holds the full discovered list
C9_ManifestOnFailure ==
    ingPc = "raised" => manifests[dates[ingDate]] = game_ids

\* C9 amended: when the download of at least one game fails, ingest_date
\* raises without writing the manifest (the manifest file is as it was
\* before the call); the manifest is written, with the full discovered list,
\* only when no download raised.
C9_ManifestOnlyOnSuccess ==
    [][ingPc = "pool" /\ ingPc' # "pool" =>
          IF FailedFutures # {}
          THEN ingPc' = "raised" /\ UNCHANGED manifests
          ELSE /\ ingPc' = "returned"
               /\ manifests' = [manifests EXCEPT ![dates[ingDate]] = game_ids]]_vars

\* C9 witness: ingest_date has raised for a date of two games, one of them
\* downloaded in full, and the date has no manifest
C9_Witness ==
    /\ ingPc = "raised"
    /\ Len(game_ids) = 2
    /\ \E n \in 1 .. 2 : gpc[n] = "ok" /\ bronze[<<Folders[3], game_ids[n]>>] = Payload(n)
    /\ manifests[dates[ingDate]] = NoManifest

\* C10: when ingest_date raises for failed games, every discovered game was
\* attempted, and the list of the error holds exactly the ids of the games
\* whose download raised, each once.
C10_AggregatedError ==
    /\ ingPc = "pool" /\ PoolDrained =>
          /\ started = 1 .. Len(game_ids)
          /\ \A n \in 1 .. Len(game_ids) : gpc[n] \in {"ok", "failed"}
    /\ ingPc = "raised" =>
          /\ errors # <<>>
          /\ Range(errors) = {game_ids[n] : n \in FailedFutures}
          /\ \A i, j \in 1 .. Len(errors) : errors[i] = errors[j] => i = j

\* the calendar order of two dates
Before(a, b) ==
    \/ a[1] < b[1]
    \/ a[1] = b[1] /\ a[2] < b[2]
    \/ a[1] = b[1] /\ a[2] = b[2] /\ a[3] < b[3]

\* the dates of the range with outcome o
DatesWith(o) == {k \in 1 .. total : outcome[k] = o}

\* C16: each counter is the number of dates classified that way, so no date
\* is counted twice; when run_backfill finishes every date of the range is
\* classified and skipped + processed + failed is the number of dates; the
\* failed list has `failed` entries, each a date of the range, in strictly
\* chronological order (hence distinct).
C16_CountersPartitionRange ==
    /\ skipped = Cardinality(DatesWith("Skipped"))
    /\ processed = Cardinality(DatesWith("Succeeded"))
    /\ failed = Cardinality(DatesWith("Failed"))
    /\ bfPc = "done" =>
          /\ DatesWith("Skipped") \cup DatesWith("Succeeded") \cup DatesWith("Failed")
                = 1 .. total
          /\ skipped + processed + failed = total
    /\ Len(failed_dates) = failed
    /\ \A i \in 1 .. Len(failed_dates) :
          /\ \E k \in 1 .. total : failed_dates[i] = dates[k]
          /\ \A j \in (i + 1) .. Len(failed_dates) :
                Before(failed_dates[i], failed_dates[j])

\* C16 witness: a finished run with a Skipped date, a Succeeded date and two
\* Failed dates
C16_Witness ==
    /\ bfPc = "done"
    /\ skipped >= 1
    /\ processed >= 1
    /\ Len(failed_dates) = 2

\* C17: when run_backfill has returned the accumulator is empty, it never
\* holds results of an earlier run, and the report of a run that follows in
\* the same process goes through the validations of that run only.
C17_AccumulatorCleared ==
    /\ (bfRuns >= 1 /\ bfPc \in {"done", "idle"}) => all_validations = {}
    /\ all_validations \subseteq {bfRuns}
    /\ bfPc = "done" => reported \subseteq {bfRuns}

\* C17 witness: the second run_backfill of the process has returned after
\* processing every date of the range and reporting its own validations
C17_Witness ==
    /\ bfPc = "done"
    /\ bfRuns = MaxBfRuns
    /\ reported = {bfRuns}
    /\ all_validations = {}
    /\ processed = total

\* the discovery call of the step has returned its list to ingest_date
DiscoveryEnds == bfPc = "discover" /\ bfPc' \in {"transform", "download"}

\* the loop of run_backfill decides on a date whose manifest an earlier run
\* wrote with an empty game-id list
DecidesOnEmptyDate ==
    /\ bfPc = "check"
    /\ idx <= total
    /\ manifests[dates[idx]] = <<>>

\* C11 as stated: when discovery returns no games, ingest_date writes the
\* empty manifest and goes to no per-game download, and a later run_backfill
\* that reaches the date classifies it Skipped.
C11_EmptyDateAlwaysSkipped ==
    [][/\ (DiscoveryEnds /\ ProviderGames(idx) = <<>>) =>
             /\ manifests'[dates[idx]] = <<>>
             /\ bfPc' # "download"
             /\ bronze' = bronze
       /\ DecidesOnEmptyDate => outcome'[idx] = "Skipped"]_vars

\* C11 amended: the same, for a later run_backfill called with skip_existing
\* on; with skip_existing off the date is processed again.
C11_EmptyDateSkippedUnlessForced ==
    [][/\ (DiscoveryEnds /\ ProviderGames(idx) = <<>>) =>
             /\ manifests'[dates[idx]] = <<>>
             /\ bfPc' # "download"
             /\ bronze' = bronze
       /\ (DecidesOnEmptyDate /\ skip_existing) => outcome'[idx] = "Skipped"
       /\ (DecidesOnEmptyDate /\ ~skip_existing) => bfPc' = "discover"]_vars

\* C11 witness: a second run has classified Skipped a date whose manifest the
\* first run wrote empty, with no artifact of the date in the bronze store
C11_Witness ==
    /\ bfRuns = 2
    /\ \E k \in 1 .. total :
          /\ ProviderGames(k) = <<>>
          /\ manifests[dates[k]] = <<>>
          /\ outcome[k] = "Skipped"

\* C15 (run_backfill with load_dims=True): when a fact load of a date begins,
\* the loader of every dimension a fact table of load_date refers to has
\* completed in this run.
C15_DimensionsBeforeFacts ==
    (load_dims /\ bfPc = "load") =>
        \A k \in 1 .. Len(FactTables) : \A t \in ForeignKeys[FactTables[k]] :
            \E i \in 1 .. Len(dim_loads) : dim_loads[i] = DimLoaderOf[t]

\* the waits the claim lists for failed attempts 1 to 5 of process_with_retry
ClaimedBfWaits == <<30, 60, 120, 240, 480>>

\* attempt number `pattempt` of process_with_retry fails in this step
BfAttemptFails == raises' = raises + 1

ClaimedPlainWaits == <<10, 20, 40, 80>>

ClaimedThrottledWaits == <<30, 60, 90, 120>>

\* C20: in the backoff after failed attempt a (1 to 4) the wait without its
\* jitter is 10, 20, 40, 80 for a failure that is not throttled and 30, 60,
\* 90, 120 for a throttled one (the floor absorbs the jitter); a throttled
\* wait is at least 30 * a and at least the plain wait of the attempt; and
\* either kind of failure is retried alike: every failure before the fifth is
\* followed by a backoff, and the call gives up at the fifth attempt only.
C20_ApiBackoffWaits ==
    \A t \in Callers :
        /\ callPc[t] = "backoff" =>
              /\ attempt[t] \in 1 .. (_MAX_RETRIES - 1)
              /\ backoffs[t] = attempt[t]
              /\ exc[t] = "internal server error" =>
                    \E jitter \in Jitters :
                        wait[t] = ClaimedPlainWaits[attempt[t]] + jitter
              /\ exc[t] = "timed out" =>
                    /\ wait[t] = ClaimedThrottledWaits[attempt[t]]
                    /\ wait[t] >= 30 * attempt[t]
                    /\ wait[t] >= ClaimedPlainWaits[attempt[t]]
        /\ (callPc[t] = "raised" /\ exc[t] # "KeyboardInterrupt") =>
              /\ attempt[t] = _MAX_RETRIES
              /\ backoffs[t] = _MAX_RETRIES - 1

\* C20 witness: one caller backs off after a throttled third attempt and
\* another after a third attempt that failed without a throttling marker
C20_Witness ==
    \E t, u \in Callers :
        /\ callPc[t] = "backoff" /\ attempt[t] = 3 /\ exc[t] = "timed out"
        /\ wait[t] = 90
        /\ callPc[u] = "backoff" /\ attempt[u] = 3 /\ exc[u] = "internal server error"
        /\ wait[u] = 45

\* callers whose request is executing or who are in the post-success delay
InFlightOrDelay == {t \in Callers : callPc[t] \in {"fn", "delay"}}

\* C18 as stated: a permit is held from the request to the end of the
\* post-success delay, so the permits taken are the callers in that phase and
\* there are never more than _MAX_CONCURRENT of them.
C18_PermitHeldThroughDelay ==
    /\ api_semaphore = _MAX_CONCURRENT - Cardinality(InFlightOrDelay)
    /\ Cardinality(InFlightOrDelay) <= _MAX_CONCURRENT

\* C18 amended: the permit is released when the provider function returns,
\* before the post-success delay: the permits taken are exactly the callers
\* whose request is executing, and a caller in the delay holds none.
C18_PermitReleasedBeforeDelay ==
    /\ api_semaphore = _MAX_CONCURRENT - Cardinality(InFlight)
    /\ api_semaphore >= 0

\* C18 witness: _MAX_CONCURRENT requests are executing while another caller
\* is in its post-success delay
C18_Witness ==
    /\ Cardinality(InFlight) = _MAX_CONCURRENT
    /\ \E t \in Callers : callPc[t] = "delay"
    /\ api_semaphore = 0

\* the fact tables the loaders of the model fill
LoadedFactTables == {"fact_player_stats", "fact_play_by_play"}

\* the game and the player of fact key k of table t are in their dimensions
DimensionsLoaded(t, k) ==
    /\ k[1] \in PKsOf(db["games"])
    /\ t = "fact_player_stats" => k[2] \in PKsOf(db["players"])

C14_UpsertLatestWins ==
    \A t \in DOMAIN PrimaryKeys :
        /\ \A r, q \in db[t] : r[1] = q[1] => r = q
        /\ \A k \in PrimaryKeys[t] :
              IF recent[t][k] = 0
              THEN k \notin PKsOf(db[t])
              ELSE <<k, recent[t][k]>> \in db[t]

\* C14 witness: the last upsert loaded a key that had a row with other
\* values, and the table holds one row of the key, with the new values
C14_Witness ==
    /\ loadOp.op \in DOMAIN PrimaryKeys
    /\ \E k \in loadOp.updated :
          /\ Cardinality({r \in db[loadOp.op] : r[1] = k}) = 1
          /\ <<k, recent[loadOp.op][k]>> \in db[loadOp.op]

\* C12: once the pipeline of a date has run to its end, the stores stay as
\* that run left them through every later run for the date: the artifact
\* files and their content, the manifest, the rows of the partitions and the
\* rows of the gold tables.
C12_RerunLeavesStores == pipeRuns >= 1 => Stores = snapshot

\* C12 witness: the second run for a date with games has reached its end,
\* with rows of the date in a partition and in a fact table
C12_Witness ==
    /\ pipeRuns = 2
    /\ pipePc = "idle"
    /\ manifests[dates[pipeDate]] \notin {NoManifest, <<>>}
    /\ partRows[<<"boxscores", pipeDate>>] # <<>>
    /\ db["fact_player_stats"] # {}
    /\ Stores = snapshot

----------------------------------------------------------------------------
(* Properties of the pure functions *)

\* C23: get_nba_season(date) returns the calendar year of the date when its
\* month is October or later and the calendar year minus one when its month
\* is January to September, for every valid date; 2024-01-15 gives 2023,
\* 2019-06-13 gives 2018 and 2024-11-01 gives 2024.
C23_SeasonByMonth ==
    (fnArg.type = "date" /\ fnRet # Pending) =>
        /\ fnRet.kind = "int"
        /\ fnArg.date[2] >= 10 => fnRet.value = <<fnArg.date[1], 0>>
        /\ fnArg.date[2] \in 1 .. 9 => fnRet.value = <<fnArg.date[1] - 1, 0>>
        /\ fnArg.date = <<2024, 1, 15>> => fnRet.value = <<2023, 0>>
        /\ fnArg.date = <<2019, 6, 13>> => fnRet.value = <<2018, 0>>
        /\ fnArg.date = <<2024, 11, 1>> => fnRet.value = <<2024, 0>>

\* C23 witness: the function has been called on a date of October, which
\* belongs to the season of its own year.
C23_Witness ==
    /\ fnArg.type = "date"
    /\ fnArg.date = <<2023, 10, 31>>
    /\ fnRet = [kind |-> "int", value |-> <<2023, 0>>]

\* the text of a decimal number: digits with at most one point among them
IsNumber(s) ==
    /\ s # <<>>
    /\ \A i \in 1 .. Len(s) : s[i] \in {"0", "1", "2", "3", "4", "5", "6", "7", "8", "9", "."}
    /\ \A i, j \in 1 .. Len(s) : (s[i] = "." /\ s[j] = ".") => i = j
    /\ s # <<".">>

\* the minute and second texts of the clock string c read as "PT", minutes,
\* "M", seconds and then n times "S"
ClockParts(c, n) ==
    LET t == SubSeq(c, 3, Len(c) - n)
        i == CHOOSE i \in 1 .. Len(t) : t[i] = "M"
    IN  <<SubSeq(t, 1, i - 1), SubSeq(t, i + 1, Len(t))>>

\* c is "PT", a number, "M", a number and then n times "S"
ClockShaped(c, n) ==
    /\ Len(c) >= 2 + n
    /\ SubSeq(c, 1, 2) = <<"P", "T">>
    /\ \A i \in (Len(c) - n + 1) .. Len(c) : c[i] = "S"
    /\ Cardinality({i \in 3 .. (Len(c) - n) : c[i] = "M"}) = 1
    /\ IsNumber(ClockParts(c, n)[1])
    /\ IsNumber(ClockParts(c, n)[2])

\* m * 60 + s for the parts of such a string
ClockSeconds(c, n) ==
    Float(Seconds(float(ClockParts(c, n)[1]), float(ClockParts(c, n)[2])))

ClockCalled == fnArg.type \in {"str", "NoneType", "float"} /\ fnRet # Pending

\* C24 as claimed: the clock parser maps a well-formed "PT<m>M<s>S" string to
\* m * 60 + s seconds and returns null, never raising, for every other input.
C24_ClockNullUnlessWellFormed ==
    ClockCalled =>
        IF fnArg.type = "str" /\ ClockShaped(fnArg.chars, 1)
        THEN fnRet = ClockSeconds(fnArg.chars, 1)
        ELSE fnRet = None

\* C24 as amended: the clock parser maps "PT<m>M<s>" followed by any number
\* of "S" (none included) to m * 60 + s seconds, and returns null, never
\* raising, for every other input: a non-string, a string not starting with
\* "PT", a string without exactly one "M", or one whose minute part or
\* second part (taken without its trailing "S" characters) is not numeric.
C24_ClockNullUnlessParseable ==
    ClockCalled =>
        /\ fnRet.kind \in {"float", "None"}
        /\ IF fnArg.type = "str"
              /\ \E n \in 0 .. Len(fnArg.chars) : ClockShaped(fnArg.chars, n)
           THEN \E n \in 0 .. Len(fnArg.chars) :
                    ClockShaped(fnArg.chars, n) /\ fnRet = ClockSeconds(fnArg.chars, n)
           ELSE fnRet = None

\* C24 witness: the parser has been called on "PT1M1.0" without the closing
\* "S" and has returned 61 seconds.
C24_Witness ==
    /\ fnArg.type = "str"
    /\ fnArg.chars = <<"P", "T", "1", "M", "1", ".", "0">>
    /\ fnRet = Float(<<61, 0>>)

----------------------------------------------------------------------------
(* Properties of the worker pool of ingest_date *)

\* the downloads of the pool that have not finished: submitted and waiting
\* for a worker, or in a worker that checks, calls the provider or saves
Unfinished == {n \in Futures : gpc[n] \in {"queued", "check", "call", "save"}}

\* C30: ingest_date returns or raises only after every worker-pool download
\* submitted for its date has finished, so when a call of ingest_date has
\* ended (and a retry of the date or the next date can start) no download
\* of it is unfinished and no provider call of it is in flight.
C30_PoolFinishedWhenIngestEnds ==
    ingPc \in {"idle", "returned", "raised", "discovery_raised"} => Unfinished = {}

\* C30 witness: ingest_date has raised for a date of two games after one
\* game failed in a provider call and the other was downloaded in full.
C30_Witness ==
    /\ ingPc = "raised"
    /\ Len(game_ids) = 2
    /\ \E n, m \in 1 .. 2 : gpc[n] = "failed" /\ gpc[m] = "ok" /\ fetched[<<"shot_chart", game_ids[m]>>] = 1

----------------------------------------------------------------------------
(* Properties of the fact loaders *)

\* C25: for every fact loader and every foreign key declared on its table, a
\* row whose reference does not resolve is dropped and counted and the
\* remaining rows are loaded; an unresolved reference never makes the whole
\* load fail.
C25_UnresolvedRowsNeverFailLoad ==
    loadOp.op \in DOMAIN ForeignKeys =>
        /\ ~loadOp.raised
        /\ loadOp.skipped = Cardinality(loadOp.dropped)
        /\ \A k \in loadOp.kept : \E r \in db[loadOp.op] : r[1] = k

----------------------------------------------------------------------------
(* Properties of process_date *)

\* process_date has ended for the date: it returned or it raised
ProcessEnded ==
    /\ pipeDate # 0
    /\ pipePc = "load" \/ (pipePc = "idle" /\ \E e \in procLog : e[1] = "raised")

\* the datasets whose loop and write the run got through
DatasetsDone ==
    {n \in 1 .. Len(Folders) :
        \A e \in procLog : e[1] = "raised" =>
            \E m \in 1 .. Len(Folders) : Folders[m] = e[2] /\ n < m}

\* the listed files that exist and hold rows with a validation issue
WithIssues ==
    {p \in (1 .. Len(Folders)) \X Range(manifests[dates[pipeDate]]) :
        /\ bronze[<<Folders[p[1]], p[2]>>] # 0
        /\ shape[<<Folders[p[1]], p[2]>>] = "issues"
        /\ ~NoRows(Folders[p[1]], p[2])}

\* the shapes with every validation issue taken away
WithoutIssues == [a \in Artifacts |-> IF shape[a] = "issues" THEN "rows" ELSE shape[a]]

\* C22: a converted row-set with validation issues is still returned by its
\* converter and written to its partition by process_date: the issue is
\* recorded in the accumulator, it never raises, and every partition
\* process_date writes holds the rows it would hold without the issue.
C22_IssuesNeverBlockWrite ==
    ProcessEnded =>
        /\ \A p \in WithIssues :
              /\ <<"raised", Folders[p[1]], p[2]>> \notin procLog
              /\ p[1] \in DatasetsDone =>
                    /\ <<"issues", Folders[p[1]], p[2]>> \in procLog
                    /\ \E i \in DOMAIN partRows[<<Folders[p[1]], pipeDate>>] :
                          partRows[<<Folders[p[1]], pipeDate>>][i][1] = RowKey(p[1], p[2])
        /\ \A n \in DatasetsDone :
              partRows[<<Folders[n], pipeDate>>]
                  = ConvertedFrames(n, manifests[dates[pipeDate]], 1, WithoutIssues)

\* C22 witness: process_date has returned for a date with two games; the
\* play-by-play of one has a validation issue, which is in the accumulator,
\* and the partition holds the rows of both.
C22_Witness ==
    /\ pipePc = "load"
    /\ \E p \in WithIssues :
          /\ Folders[p[1]] = "pbp"
          /\ <<"issues", "pbp", p[2]>> \in procLog
          /\ Len(partRows[<<"pbp", pipeDate>>]) = 2
          /\ \E i \in 1 .. 2 : partRows[<<"pbp", pipeDate>>][i][1][1] = p[2]

\* the listed files that exist and hold a payload that is structurally
\* malformed or misses an expected field
Malformed ==
    {p \in (1 .. Len(Folders)) \X Range(manifests[dates[pipeDate]]) :
        /\ bronze[<<Folders[p[1]], p[2]>>] # 0
        /\ shape[<<Folders[p[1]], p[2]>>] \in {"no_container", "no_field", "undecodable"}}

\* C26: in process_date a payload of one game that is malformed or misses an
\* expected field causes only the artifact of that game to be skipped with a
\* warning: process_date does not raise on it, and when its dataset is
\* written without the rows of the game a warning for the artifact is logged.
C26_MalformedGameOnlySkipped ==
    ProcessEnded =>
        /\ \A p \in Malformed : <<"raised", Folders[p[1]], p[2]>> \notin procLog
        /\ \A p \in Malformed :
              (/\ p[1] \in DatasetsDone
               /\ \A i \in DOMAIN partRows[<<Folders[p[1]], pipeDate>>] :
                     partRows[<<Folders[p[1]], pipeDate>>][i][1][1] # p[2])
              => <<"warning", Folders[p[1]], p[2]>> \in procLog

\* the artifacts of the listed games that the partitions of the date hold no
\* row of
LeftOut ==
    {p \in (1 .. Len(Folders)) \X Range(manifests[dates[pipeDate]]) :
        \A i \in DOMAIN partRows[<<Folders[p[1]], pipeDate>>] :
            partRows[<<Folders[p[1]], pipeDate>>][i][1][1] # p[2]}

\* C27: whenever process_date leaves the artifact of a listed game out of a
\* partition (its bronze file is missing, its payload is malformed, or it
\* converts to zero rows), a warning is logged for it, be it for the
\* artifact itself or for its dataset as a whole.
C27_EverySkipLogged ==
    (pipeDate # 0 /\ pipePc = "load") =>
        \A p \in LeftOut :
            \/ <<"warning", Folders[p[1]], p[2]>> \in procLog
            \/ <<"warning", Folders[p[1]], 0>> \in procLog

\* the loop over the games of dataset n has run to its end and has gathered
\* no frame: the run got through the datasets before n, no file of dataset
\* n made its converter raise, and no listed game has a file with rows
NoGameContributes(n) ==
    /\ manifests[dates[pipeDate]] # <<>>
    /\ n = 1 \/ (n - 1) \in DatasetsDone
    /\ RaiseAt(n, manifests[dates[pipeDate]], shape) > Len(manifests[dates[pipeDate]])
    /\ ConvertedFrames(n, manifests[dates[pipeDate]], 1, shape) = <<>>

FramesOfRun(n) == ConvertedFrames(n, manifests[dates[pipeDate]], 1, shape)

\* C28 as claimed: after process_date(D) returns, for every kind the
\* partition stored for D holds exactly the rows converted in this run and
\* no rows left over from an earlier run of D.
C28_PartitionOnlyThisRun ==
    (pipeDate # 0 /\ pipePc = "load") =>
        \A n \in 1 .. Len(Folders) : partRows[<<Folders[n], pipeDate>>] = FramesOfRun(n)

\* C28 as amended: when process_date(D) returns, for every kind to which a
\* listed game contributes rows in this run the partition stored for D holds
\* exactly the rows converted in this run and none of an earlier run; for a
\* kind to which no game contributes (the manifest of D being empty
\* included) the partition is what it was before the run.
C28_PartitionOnlyThisRunIfWritten ==
    [][(pipePc = "process" /\ pipePc' = "load") =>
          \A n \in 1 .. Len(Folders) :
              IF FramesOfRun(n) # <<>>
              THEN partRows'[<<Folders[n], pipeDate>>] = FramesOfRun(n)
              ELSE partRows'[<<Folders[n], pipeDate>>] = partRows[<<Folders[n], pipeDate>>]]_vars

\* C28 witness: process_date has returned in a second run of a date with two
\* games, after a first run that got through, and the play-by-play
\* partition holds the two rows of this run.
C28_Witness ==
    /\ pipePc = "load"
    /\ pipeRuns = 1
    /\ ~relisted
    /\ Len(FramesOfRun(2)) = 2
    /\ partRows[<<"pbp", pipeDate>>] = FramesOfRun(2)

----------------------------------------------------------------------------
(* Properties of the pipeline over several dates *)

\* what is stored for the date of index j: the artifacts of its games, its
\* manifest, its silver partitions with their rows, and the fact rows of
\* its games
StoredFor(j) ==
    <<[a \in Listed(j) |-> bronze[a]],
      manifests[dates[j]],
      {p \in silver : p[3] = dates[j]},
      [f \in Range(Folders) |-> partRows[<<f, j>>]],
      [t \in Range(FactTables) |-> {r \in db[t] : r[1][1] \in Range(ProviderGames(j))}]>>

\* what the pipeline stores for the date of index j when it runs for that
\* date alone, given the dimensions that are loaded
AloneFor(j) ==
    LET ids == ProviderGames(j)
        frames(n) == ConvertedFrames(n, ids, 1, shape)
    IN  <<[a \in Listed(j) |-> 1],
          ids,
          {<<Folders[n], get_nba_season(dates[j]), dates[j]>> :
              n \in {n \in 1 .. Len(Folders) : frames(n) # <<>>}},
          [f \in Range(Folders) |-> frames(CHOOSE n \in 1 .. Len(Folders) : Folders[n] = f)],
          [t \in Range(FactTables) |->
              {r \in drop_duplicates(frames(CHOOSE n \in 1 .. Len(FactTables) : FactTables[n] = t)) :
                  FkOk(t, r)}]>>

\* C21: with a provider that returns the same data, what is stored for a
\* date once the pipeline got through it is what the pipeline stores for
\* that date alone, whatever other dates were processed before or after it
\* (so processing D1 then D2 and processing D2 then D1 end in the same
\* stored state), and no step of the pipeline of one date changes what is
\* stored for another date.
C21_DatesCommute ==
    /\ [](\A j \in completed : StoredFor(j) = AloneFor(j))
    /\ [][\A j \in PipeDates : j # pipeDate' => StoredFor(j)' = StoredFor(j)]_vars

\* C21 witness: the pipeline got through the date with two games and then
\* through the date with one game, with the dimensions loaded, and the fact
\* rows of both dates are stored.
C21_Witness ==
    /\ completed = {1, 3}
    /\ pipeDate = 1
    /\ pipePc = "idle"
    /\ Cardinality(db["fact_play_by_play"]) = 3
    /\ StoredFor(1) = AloneFor(1)
    /\ StoredFor(3) = AloneFor(3)

----------------------------------------------------------------------------
(* Properties of a retry of ingest_date *)

\* the call of ingest_date that wrote payload p
WrittenIn(p) == p \div (Cardinality(Futures) + 1)

\* the artifacts of the listed games that earlier calls of ingest_date wrote
WrittenEarlier ==
    {a \in Range(Folders) \X Range(game_ids) : bronze[a] # 0 /\ WrittenIn(bronze[a]) < run}

\* the artifacts of the listed games that were missing when the call began
MissingAtStart == (Range(Folders) \X Range(game_ids)) \ WrittenEarlier

\* the current call has ended after the pool ran, and it follows a call of
\* the same date that wrote some artifact
RetryEnded ==
    /\ ingPc \in {"returned", "raised"}
    /\ game_ids # <<>>
    /\ WrittenEarlier # {}

\* every call of ingest_date begins with the discovery call, and no step of
\* a call fetches or rewrites an artifact an earlier call wrote
RetryKeepsEarlier ==
    /\ run' # run => ingPc' = "discover"
    /\ ingPc' = "pool" /\ ingPc # "pool" => ingPc = "discover"
    /\ \A a \in Artifacts :
          (bronze[a] # 0 /\ WrittenIn(bronze[a]) < run') =>
             bronze'[a] = bronze[a] /\ fetched'[a] = 0

C32_NoFetchOfExistingNoDoubleFetch ==
    /\ [][\A a \in Artifacts :
             (run' = run /\ fetched'[a] > fetched[a]) => bronze[a] = 0]_vars
    /\ [](\A a \in Artifacts : fetched[a] <= 1)

----------------------------------------------------------------------------
(* Properties of the rows of a partition *)

\* C33: whatever list the manifest holds, no partition process_date has
\* written holds two rows with the same natural primary key.
C33_PartitionKeysUnique ==
    \A p \in DOMAIN partRows :
        \A i, j \in 1 .. Len(partRows[p]) :
            partRows[p][i][1] = partRows[p][j][1] => i = j

----------------------------------------------------------------------------
(* Properties of a resumed backfill *)

\* C34: a date with at least one game that a run of run_backfill classifies
\* Succeeded is a date is_already_done finds done from then on, and a run
\* with skip_existing that reaches a date found done classifies it Skipped
\* without a provider call; so a later run over the same range skips every
\* date an earlier run completed.
C34_SucceededIsSkippedLater ==
    [][/\ \A k \in 1 .. total :
             (outcome'[k] = "Succeeded" /\ ProviderGames(k) # <<>>) =>
                is_already_done(dates[k])'
       /\ \A k \in 1 .. total :
             is_already_done(dates[k]) => is_already_done(dates[k])'
       /\ (bfPc = "check" /\ idx <= total /\ skip_existing
             /\ is_already_done(dates[idx])) =>
                outcome'[idx] = "Skipped" /\ called' = called]_vars

----------------------------------------------------------------------------
(* Properties of the manifest *)

\* C35: after any sequence of calls of ingest_date, failed or not, a
\* manifest that exists with a non-empty list of game ids has the box score,
\* the play-by-play and the shot chart of every game it lists in the bronze
\* store.
C35_ManifestImpliesArtifacts ==
    \A k \in 1 .. NumDates :
        (manifests[dates[k]] # NoManifest /\ Len(manifests[dates[k]]) > 0) =>
            \A a \in Range(Folders) \X Range(manifests[dates[k]]) : bronze[a] # 0

\* C35 witness: the manifest of the date of two games was written by a retry
\* that found artifacts of a failed earlier attempt and fetched the others.
C35_Witness ==
    /\ ingPc = "returned"
    /\ run > 1
    /\ Len(manifests[dates[ingDate]]) = 2
    /\ \E a, b \in Range(Folders) \X Range(game_ids) :
          /\ a \in WrittenEarlier
          /\ b \in MissingAtStart /\ fetched[b] = 1 /\ bronze[b] # 0

----------------------------------------------------------------------------
(* Properties of the files of a process that died *)

\* the artifacts and manifests a _save_json of the running call is writing
BeingWritten ==
    {ArtifactOf(n) : n \in {n \in Futures : gpc[n] = "dump"}}
    \cup (IF ingPc = "manifest" THEN {dates[ingDate]} ELSE {})

\* C36: a file that exists and that no _save_json is writing is complete,
\* also after a process died or was interrupted in _save_json; no download
\* takes a file that was not written to its end for an artifact that has
\* been fetched.
C36_ExistingFileComplete ==
    /\ [](\A a \in Artifacts : bronze[a] = Truncated => a \in BeingWritten)
    /\ [](\A k \in 1 .. NumDates :
             manifests[dates[k]] = TruncatedManifest => dates[k] \in BeingWritten)
    /\ [][\A n \in Futures :
             (gpc[n] = "check" /\ bronze[ArtifactOf(n)] = Truncated) =>
                gpc'[n] \in {"check", "call"} /\ gstep'[n] = gstep[n]]_vars

----------------------------------------------------------------------------
(* Properties of the permits of _api_semaphore *)

\* the callers that are in no call of _api_call, or whose call has ended
Finished == {t \in Callers : callPc[t] \in {"idle", "returned", "raised"}}

\* C37: the permits that are taken are those of the callers inside the
\* provider function, so a caller that sleeps in its backoff holds none;
\* every step that leaves the provider function, by return, exception or
\* interrupt, gives the permit back; and when every call has ended all
\* _MAX_CONCURRENT permits are free.
C37_PermitsGivenBack ==
    /\ [](api_semaphore + Cardinality(InFlight) = _MAX_CONCURRENT)
    /\ []((\E t \in Callers : callPc[t] = "backoff") =>
             api_semaphore >= _MAX_CONCURRENT - Cardinality(Callers \ Finished) + 1)
    /\ [](Finished = Callers => api_semaphore = _MAX_CONCURRENT)
    /\ [][\A t \in Callers :
             (callPc[t] = "fn" /\ callPc'[t] # "fn") =>
                api_semaphore' = api_semaphore + 1]_vars

\* C37 witness: every call has ended, one by exhausting its attempts and one
\* by returning after a failed attempt and its backoff, and all permits are
\* free.
C37_Witness ==
    /\ Finished = Callers
    /\ api_semaphore = _MAX_CONCURRENT
    /\ \E t, u \in Callers :
          /\ callPc[t] = "raised" /\ invoked[t] = _MAX_RETRIES /\ exc[t] \in ProviderErrors
          /\ callPc[u] = "returned" /\ backoffs[u] >= 1

----------------------------------------------------------------------------
(* Termination of run_backfill *)

\* run_backfill has returned, or an exception or interrupt has left it
BfEnded == bfPc \in {"done", "raised", "interrupted"}

\* C38: whatever the provider does, run_backfill over a finite range ends:
\* a date is attempted at most MAX_RETRIES times and the request of an
\* attempt invokes the provider at most _MAX_RETRIES times, so a request is
\* invoked at most MAX_RETRIES * _MAX_RETRIES = 25 times for a date.
C38_BackfillTerminates ==
    /\ <>BfEnded
    /\ [](/\ tries <= MAX_RETRIES
          /\ invoked[MainThread] <= _MAX_RETRIES
          /\ (IF tries = 0 THEN 0 ELSE (tries - 1) * _MAX_RETRIES + invoked[MainThread])
                <= 25)
    /\ [][tries' > tries => invoked'[MainThread] = 0]_vars

\* C38 witness: after a date of the range has Failed, the discovery request
\* of the fifth attempt of the next date is invoked for the fifth time.
C38_Witness ==
    /\ bfPc = "discover"
    /\ tries = MAX_RETRIES
    /\ raises = MAX_RETRIES - 1
    /\ invoked[MainThread] = _MAX_RETRIES
    /\ callPc[MainThread] = "fn"
    /\ \E k \in 1 .. (idx - 1) : outcome[k] = "Failed"

\* C39: when the INSERT of upsert fails on a staged row that violates a
\* foreign key, the call leaves every table exactly as it was before the
\* call: none of the staged rows is committed, not even the rows that
\* violate nothing.
C39_FailedInsertCommitsNothing ==
    [][loadOp'.raised => db' = db]_vars

\* load_fact_team_stats has raised on a frame with a row that violates a
\* foreign key and a row that violates none, and the row that violates none
\* is not in fact_team_stats, which holds other rows
C39_Witness ==
    /\ loadOp.raised
    /\ loadOp.op = "fact_team_stats"
    /\ loadOp.dropped # {}
    /\ db[loadOp.op] # {}
    /\ \E k \in loadOp.kept : k \notin PKsOf(db[loadOp.op])

====
